---- MODULE Spec2Model ----
(***************************************************************************)
(* bqvalid, rule "unused column in CTE" (src/src/rules/unused_column_in_cte)*)
(*                                                                         *)
(* The rule walks a tree-sitter syntax tree once, in pre-order, and hands  *)
(* every node to six visitors that fill an AnalysisContext (the CTE index  *)
(* and the dependency graph).  The context is then asked for the columns   *)
(* nobody marked, and these become the diagnostics.                        *)
(*                                                                         *)
(* Strings are sequences of tokens, the dot being a token of its own:      *)
(* "data1.column1" is <<"data1", ".", "column1">> and "" is <<>>.  Two      *)
(* strings are equal exactly when their token sequences are.               *)
(* Option<T> is a sequence of length at most one: None is <<>>.            *)
(***************************************************************************)
EXTENDS Integers, Sequences, FiniteSets, TLC

(***************************************************************************)
(* Bounds of the model.                                                    *)
(***************************************************************************)
MaxCtes == 2

Dot == "."
None == <<>>
Some(v) == <<v>>
Str(s) == <<s>>
Qual(q, c) == <<q, Dot, c>>
Range(s) == {s[i] : i \in 1..Len(s)}

\* F at v, with v worked out once and then shared
With(v, F(_)) == CHOOSE r \in {F(x) : x \in {v}} : TRUE

RECURSIVE Concat(_)
Concat(ss) == IF ss = <<>> THEN <<>> ELSE Head(ss) \o Concat(Tail(ss))

\* the sequences of ss, one after the other
Flatten(ss) == With(ss, Concat)

(***************************************************************************)
(* String helpers of utils.rs.                                             *)
(***************************************************************************)
contains_dot(s) == \E i \in 1..Len(s) : s[i] = Dot

\* column_ref.split('.').next_back(): what follows the last dot
extract_column_name(column_ref) ==
    IF contains_dot(column_ref)
    THEN LET last == CHOOSE i \in 1..Len(column_ref) :
                        /\ column_ref[i] = Dot
                        /\ \A j \in (i + 1)..Len(column_ref) : column_ref[j] # Dot
         IN SubSeq(column_ref, last + 1, Len(column_ref))
    ELSE column_ref

\* table_ref.split('.').next(): what precedes the first dot
extract_table_name(table_ref) ==
    IF contains_dot(table_ref)
    THEN LET first == CHOOSE i \in 1..Len(table_ref) :
                         /\ table_ref[i] = Dot
                         /\ \A j \in 1..(i - 1) : table_ref[j] # Dot
         IN SubSeq(table_ref, 1, first - 1)
    ELSE table_ref

(***************************************************************************)
(* The syntax tree.  A tree is the sequence of its nodes in document       *)
(* (pre-)order; a node names its parent by index, 0 for the root.  fld is  *)
(* the field name the node has in its parent ("" when none), text the      *)
(* slice of the source it spans, (row, col) its 0-based start position.    *)
(***************************************************************************)
MkNode(kind, named, text, nl) ==
    [kind |-> kind, parent |-> 0, named |-> named, fld |-> "", text |-> text,
     nl |-> nl, row |-> 0, col |-> 0]

Leaf(kind, text) == << MkNode(kind, TRUE, text, FALSE) >>
Token(word) == << MkNode(word, FALSE, Str(word), FALSE) >>
WithField(sub, f) == [sub EXCEPT ![1].fld = f]

Shift(sub, off) ==
    [i \in 1..Len(sub) |->
        [sub[i] EXCEPT !.parent = IF @ = 0 THEN 1 ELSE @ + off]]

RECURSIVE Offset(_, _)
\* where the subtree of kid i starts, less one, under a parent at index 1
Offset(kids, i) == IF i = 1 THEN 1 ELSE Offset(kids, i - 1) + Len(kids[i - 1])

AttachKids(kids) == Flatten([i \in 1..Len(kids) |-> Shift(kids[i], Offset(kids, i))])

Inner(kind, kids) ==
    LET build(ks) ==
            << MkNode(kind, TRUE, Flatten([i \in 1..Len(ks) |-> ks[i][1].text]), FALSE) >>
                \o AttachKids(ks)
    IN With(kids, build)

\* an inner node of a kind whose text the rule never slices out of the
\* source (clauses, lists, statements): its text is left out of the model
Clause(kind, kids) ==
    LET build(ks) == << MkNode(kind, TRUE, <<>>, FALSE) >> \o AttachKids(ks)
    IN With(kids, build)

IsLeaf(t, n) == \A m \in 1..Len(t) : t[m].parent # n

\* the start position of leaf n among the leaves: every token is one column
\* wide, a token flagged nl opens a new line
LeafPosition(t, leaves, n) ==
    LET breaks == {m \in leaves : m <= n /\ t[m].nl}
        last == CHOOSE m \in breaks : \A k \in breaks : k <= m
    IN IF breaks = {}
       THEN [row |-> 0, col |-> Cardinality({m \in leaves : m < n})]
       ELSE [row |-> Cardinality(breaks) - 1,
             col |-> Cardinality({m \in leaves : last <= m /\ m < n})]

\* every node gets its position: an inner node starts where its first token
\* starts
Layout(t) ==
    LET place(tv) ==
            LET withLeaves(leaves) ==
                    LET withPos(pos) ==
                            [i \in 1..Len(tv) |->
                                LET first == CHOOSE m \in leaves :
                                                m >= i /\ \A k \in leaves : k >= i => m <= k
                                IN [tv[i] EXCEPT !.row = pos[first].row,
                                                 !.col = pos[first].col]]
                    IN With([n \in leaves |-> LeafPosition(tv, leaves, n)], withPos)
            IN With({n \in 1..Len(tv) : IsLeaf(tv, n)}, withLeaves)
    IN With(t, place)

(***************************************************************************)
(* Node navigation, as tree-sitter gives it.                               *)
(***************************************************************************)
\* the indices of the nodes that satisfy P, in document order
SelectIdx(t, P(_)) == SelectSeq([i \in 1..Len(t) |-> i], P)

\* node.children(): all children, in order
children(t, n) == LET P(i) == t[i].parent = n IN SelectIdx(t, P)
\* node.named_children()
named_children(t, n) == LET P(i) == t[i].parent = n /\ t[i].named IN SelectIdx(t, P)
\* node.child_by_field_name(f), as an Option
child_by_field_name(t, n, f) ==
    LET P(i) == t[i].parent = n /\ t[i].fld = f
        found == SelectIdx(t, P)
    IN IF found = <<>> THEN None ELSE Some(found[1])
\* node.next_named_sibling(), as an Option
next_named_sibling(t, n) ==
    LET P(i) == i > n /\ t[i].parent = t[n].parent /\ t[i].named /\ t[n].parent # 0
        found == SelectIdx(t, P)
    IN IF found = <<>> THEN None ELSE Some(found[1])

RECURSIVE IsAncestor(_, _, _)
\* a is a proper ancestor of n
IsAncestor(t, a, n) ==
    IF t[n].parent = 0 THEN FALSE
    ELSE t[n].parent = a \/ IsAncestor(t, a, t[n].parent)

\* traverse(node.walk(), Order::Pre): the node and its descendants, in order
subtree(t, n) == LET P(i) == i = n \/ IsAncestor(t, n, i) IN SelectIdx(t, P)

\* the first item of a sequence that satisfies P, as an Option
Find(s, P(_)) ==
    LET found == SelectSeq(s, P) IN IF found = <<>> THEN None ELSE Some(found[1])

\* the first of nodes whose kind is one of kinds, as an Option
first_of_kind(t, nodes, kinds) ==
    LET P(c) == t[c].kind \in kinds IN Find(nodes, P)

(***************************************************************************)
(* models.rs: ColumnInfo.  The constructor turns the 0-based position of   *)
(* the tree into a 1-based one.                                            *)
(***************************************************************************)
\* a constructor that keeps the 0-based position of the tree
ColumnInfo_new_zero_based(table_name, column_name, original_column_name, row, col) ==
    [table_name |-> table_name, column_name |-> column_name,
     original_column_name |-> original_column_name,
     row |-> row, col |-> col]

ColumnInfo_new(table_name, column_name, original_column_name, row, col) ==
    [table_name |-> table_name, column_name |-> column_name,
     original_column_name |-> original_column_name,
     row |-> row + 1, col |-> col + 1]

\* an ordering that compares the column first
ColumnInfo_lt_col_first(a, b) == a.col < b.col \/ (a.col = b.col /\ a.row < b.row)

\* impl Ord for ColumnInfo: row first, then col; Less(a, b) is a < b
ColumnInfo_lt(a, b) == a.row < b.row \/ (a.row = b.row /\ a.col < b.col)

\* impl Ord for ColumnInfo, as the Ordering it returns
ColumnInfo_cmp(a, b) ==
    IF ColumnInfo_lt(a, b) THEN "Less" ELSE IF ColumnInfo_lt(b, a) THEN "Greater" ELSE "Equal"

\* #[derive(PartialEq, Eq)]: every field is compared
ColumnInfo_eq(a, b) ==
    /\ a.table_name = b.table_name
    /\ a.column_name = b.column_name
    /\ a.original_column_name = b.original_column_name
    /\ a.row = b.row
    /\ a.col = b.col

\* Vec::sort(): a stable sort by the ordering above
RECURSIVE InsertSorted(_, _)
InsertSorted(sorted, x) ==
    IF sorted = <<>> THEN <<x>>
    ELSE IF ColumnInfo_lt(x, Head(sorted)) THEN <<x>> \o sorted
         ELSE <<Head(sorted)>> \o InsertSorted(Tail(sorted), x)

RECURSIVE SortFrom(_, _)
SortFrom(done, rest) ==
    IF rest = <<>> THEN done ELSE SortFrom(InsertSorted(done, Head(rest)), Tail(rest))

\* no sort at all: the list stays in the order the map gave
sort_skipped(v) == v

sort(v) == SortFrom(<<>>, v)

(***************************************************************************)
(* graph.rs: DependencyGraph, a map from CTE name to CTENode.              *)
(***************************************************************************)
EmptyMap == [x \in {} |-> x]
MapInsert(m, k, v) == [x \in DOMAIN m \cup {k} |-> IF x = k THEN v ELSE m[x]]

DependencyGraph_new == EmptyMap

graph_add_cte(nodes, cte_name, columns) ==
    MapInsert(nodes, cte_name, [columns |-> columns, used_column_names |-> {}])

\* a marking that keeps the last name only, in place of inserting it
mark_column_used_overwriting(nodes, table_name, column_name) ==
    IF table_name \in DOMAIN nodes
    THEN [nodes EXCEPT ![table_name].used_column_names = {column_name}]
    ELSE nodes

mark_column_used(nodes, table_name, column_name) ==
    IF table_name \in DOMAIN nodes
    THEN [nodes EXCEPT ![table_name].used_column_names = @ \cup {column_name}]
    ELSE nodes

is_column_used(nodes, table_name, column_name) ==
    /\ table_name \in DOMAIN nodes
    /\ column_name \in nodes[table_name].used_column_names

\* a collection that takes a column for used on an exact match only
unused_of_node_exact(cte_node) ==
    SelectSeq(cte_node.columns, LAMBDA col : col.column_name \notin cte_node.used_column_names)

\* the unused columns of one CTENode, in column order
unused_of_node(cte_node) ==
    LET is_used(col) ==
            \/ col.column_name \in cte_node.used_column_names
            \/ \E used \in cte_node.used_column_names :
                  extract_column_name(used) = extract_column_name(col.column_name)
        P(col) == ~is_used(col)
    IN SelectSeq(cte_node.columns, P)

\* order is the order in which HashMap::values() yields the CTEs
collect_unused_columns(nodes, order) ==
    sort(Flatten([i \in 1..Len(order) |-> unused_of_node(nodes[order[i]])]))

(***************************************************************************)
(* context.rs: AnalysisContext.                                            *)
(***************************************************************************)
AnalysisContext_new == [graph |-> DependencyGraph_new, cte_columns |-> EmptyMap]

\* a registration that writes the index of columns and leaves the graph alone
add_cte_in_index_only(context, cte_name, columns) ==
    [graph |-> context.graph,
     cte_columns |-> MapInsert(context.cte_columns, cte_name, columns)]

add_cte(context, cte_name, columns) ==
    [graph |-> graph_add_cte(context.graph, cte_name, columns),
     cte_columns |-> MapInsert(context.cte_columns, cte_name, columns)]

\* a marking that takes the name out again when it is in the set already
mark_used_toggling(context, table_name, column_name) ==
    IF table_name \in DOMAIN context.graph
    THEN [context EXCEPT !.graph[table_name].used_column_names =
             IF column_name \in @ THEN @ \ {column_name} ELSE @ \cup {column_name}]
    ELSE context

mark_used(context, table_name, column_name) ==
    [context EXCEPT !.graph = mark_column_used(@, table_name, column_name)]

has_cte(context, cte_name) == cte_name \in DOMAIN context.cte_columns

get_cte_columns(context, cte_name) ==
    IF cte_name \in DOMAIN context.cte_columns
    THEN Some(context.cte_columns[cte_name]) ELSE None

collect_unused(context, order) == collect_unused_columns(context.graph, order)

\* marks a sequence of (table, column) pairs, one after the other
RECURSIVE mark_from(_, _, _)
mark_from(context, pairs, i) ==
    IF i > Len(pairs) THEN context
    ELSE With(mark_used(context, pairs[i][1], pairs[i][2]),
              LAMBDA marked : mark_from(marked, pairs, i + 1))

mark_each(context, pairs) == With(pairs, LAMBDA ps : mark_from(context, ps, 1))

(***************************************************************************)
(* utils.rs                                                                *)
(***************************************************************************)
\* the Option of the CTE's alias_name text; the code unwraps it
get_cte_name(t, cte_node) ==
    With(child_by_field_name(t, cte_node, "alias_name"),
         LAMBDA f : IF f = None THEN None ELSE Some(t[f[1]].text))

is_function_name(t, node) ==
    /\ t[node].parent # 0
    /\ t[t[node].parent].kind = "function_call"
    /\ With(child_by_field_name(t, t[node].parent, "function"),
            LAMBDA func_node : IF func_node # None THEN func_node[1] = node
                               ELSE children(t, t[node].parent)[1] = node)

\* the callee test the SELECT, QUALIFY and PIVOT visitors spell out themselves
is_name_of_call(t, node) ==
    /\ t[node].parent # 0
    /\ t[t[node].parent].kind = "function_call"
    /\ child_by_field_name(t, t[node].parent, "name") = Some(node)

\* the last named child of an as_alias node, as an Option
alias_name_node(t, alias) ==
    IF alias = None THEN None
    ELSE With(named_children(t, alias[1]),
              LAMBDA nc : IF nc = <<>> THEN None ELSE Some(nc[Len(nc)]))

\* one from_item of extract_table: the table it names and its alias, if any
from_item_entry(t, n) ==
    With(named_children(t, n), LAMBDA named :
    With(alias_name_node(t, first_of_kind(t, children(t, n), {"as_alias"})),
         LAMBDA alias_node :
            IF t[n].kind = "from_item" /\ named # <<>> /\ t[named[1]].kind = "identifier"
            THEN Some([table |-> t[named[1]].text,
                       alias |-> IF alias_node = None THEN None
                                 ELSE Some(t[alias_node[1]].text)])
            ELSE None))

RECURSIVE alias_map_of(_, _)
alias_map_of(entries, m) ==
    IF entries = <<>> THEN m
    ELSE alias_map_of(Tail(entries),
                      IF Head(entries).alias = None THEN m
                      ELSE MapInsert(m, Head(entries).alias[1], Head(entries).table))

\* the from_items under from that name a table, in document order
from_entries(t, from) ==
    With(SelectSeq([i \in 1..Len(subtree(t, from)) |-> from_item_entry(t, subtree(t, from)[i])],
                   LAMBDA e : e # None),
         LAMBDA found : [i \in 1..Len(found) |-> found[i][1]])

\* from is the Option of a node; the result is (tables, alias_map)
extract_table(t, from) ==
    IF from = None THEN [tables |-> <<>>, alias_map |-> EmptyMap]
    ELSE With(from_entries(t, from[1]), LAMBDA entries :
              [tables |-> [i \in 1..Len(entries) |-> entries[i].table],
               alias_map |-> alias_map_of(entries, EmptyMap)])

\* the by-name scan of find_original_table over the FROM tables
RECURSIVE scan_tables(_, _, _)
scan_tables(column_base_name, tables, cte_columns) ==
    IF tables = <<>> THEN <<>>
    ELSE IF Head(tables) \in DOMAIN cte_columns
         THEN IF \E i \in 1..Len(cte_columns[Head(tables)]) :
                    extract_column_name(cte_columns[Head(tables)][i].column_name)
                        = column_base_name
              THEN Head(tables)
              ELSE scan_tables(column_base_name, Tail(tables), cte_columns)
         ELSE Head(tables)

\* a resolution that scans the FROM tables from the last to the first
find_original_table_last_first(column, tables, alias_map, cte_columns) ==
    With(IF extract_table_name(column) \in DOMAIN alias_map
         THEN alias_map[extract_table_name(column)] ELSE extract_table_name(column),
         LAMBDA actual_table_name :
            IF /\ contains_dot(column)
               /\ \/ actual_table_name \in Range(tables)
                  \/ actual_table_name \in DOMAIN cte_columns
            THEN actual_table_name
            ELSE scan_tables(extract_column_name(column),
                             [i \in 1..Len(tables) |-> tables[Len(tables) + 1 - i]],
                             cte_columns))

find_original_table(column, tables, alias_map, cte_columns) ==
    With(IF extract_table_name(column) \in DOMAIN alias_map
         THEN alias_map[extract_table_name(column)] ELSE extract_table_name(column),
         LAMBDA actual_table_name :
            IF /\ contains_dot(column)
               /\ \/ actual_table_name \in Range(tables)
                  \/ actual_table_name \in DOMAIN cte_columns
            THEN actual_table_name
            ELSE scan_tables(extract_column_name(column), tables, cte_columns))

(***************************************************************************)
(* visitors/cte_visitor.rs: the CTE-definition collector.                  *)
(***************************************************************************)
\* (column, original_column, source_column) of an item without alias
extract_column_name_without_alias(t, select_expr) ==
    With(extract_column_name(t[select_expr].text), LAMBDA column_name :
         [column |-> column_name, original |-> t[select_expr].text,
          source |-> IF column_name # t[select_expr].text THEN Some(column_name) ELSE None])

\* an alias whose source column keeps the table prefix of the expression
extract_alias_info_keeping_prefix(t, alias_node, select_expr) ==
    With(named_children(t, alias_node), LAMBDA an :
    With(named_children(t, select_expr), LAMBDA sn :
    With(IF an = <<>> THEN <<>> ELSE t[an[Len(an)]].text, LAMBDA alias_name :
    With(IF sn = <<>> THEN alias_name ELSE t[sn[1]].text, LAMBDA original :
         [column |-> alias_name, original |-> original, source |-> Some(original)]))))

\* (column, original_column, source_column) of an item with an as_alias
extract_alias_info(t, alias_node, select_expr) ==
    With(named_children(t, alias_node), LAMBDA an :
    With(named_children(t, select_expr), LAMBDA sn :
    With(IF an = <<>> THEN <<>> ELSE t[an[Len(an)]].text, LAMBDA alias_name :
    With(IF sn = <<>> THEN alias_name ELSE t[sn[1]].text, LAMBDA original :
         [column |-> alias_name, original |-> original,
          source |-> Some(extract_column_name(original))]))))

extract_column_info_from_select_expression(t, select_expr, tables, alias_map, cte_columns) ==
    With(first_of_kind(t, children(t, select_expr), {"as_alias"}), LAMBDA as_alias_node :
    With(IF as_alias_node = None
         THEN extract_column_name_without_alias(t, select_expr)
         ELSE extract_alias_info(t, as_alias_node[1], select_expr), LAMBDA info :
         ColumnInfo_new(Some(find_original_table(info.original, tables, alias_map, cte_columns)),
                        info.column, info.source,
                        t[select_expr].row, t[select_expr].col)))

\* clones that keep the table_name of the source column
expand_table_keeping_origin(position, cte_name, cte_columns) ==
    IF cte_name \in DOMAIN cte_columns
    THEN [i \in 1..Len(cte_columns[cte_name]) |->
             [cte_columns[cte_name][i] EXCEPT !.row = position.row + 1,
                                              !.col = position.col + 1]]
    ELSE <<>>

\* the clones of one source table's columns, moved to the star
expand_table(position, cte_name, cte_columns) ==
    IF cte_name \in DOMAIN cte_columns
    THEN [i \in 1..Len(cte_columns[cte_name]) |->
             [cte_columns[cte_name][i] EXCEPT !.table_name = Some(cte_name),
                                              !.row = position.row + 1,
                                              !.col = position.col + 1]]
    ELSE <<>>

expand_asterisk(position, cte_names, cte_columns) ==
    Flatten([i \in 1..Len(cte_names) |-> expand_table(position, cte_names[i], cte_columns)])

\* what one child of the select_list contributes to the CTE's columns
columns_of_child(t, child, ft, cte_columns) ==
    IF t[child].kind = "select_expression"
    THEN << extract_column_info_from_select_expression(
                t, child, ft.tables, ft.alias_map, cte_columns) >>
    ELSE IF t[child].kind = "select_all"
         THEN expand_asterisk([row |-> t[child].row, col |-> t[child].col],
                              ft.tables, cte_columns)
         ELSE <<>>

\* extract_columns on a select_list node (the only kind the collector passes)
extract_columns(t, node, cte_columns) ==
    With(extract_table(t, next_named_sibling(t, node)), LAMBDA ft :
    With(children(t, node), LAMBDA kids :
         Flatten([i \in 1..Len(kids) |-> columns_of_child(t, kids[i], ft, cte_columns)])))

\* the select under a cte node, directly or inside its query_expr, as an Option
cte_select(t, query_node) ==
    IF query_node = None THEN None
    ELSE IF t[query_node[1]].kind = "query_expr"
         THEN first_of_kind(t, named_children(t, query_node[1]), {"select"})
         ELSE query_node

\* the select_list that defines the CTE, as an Option
cte_select_list(t, node) ==
    With(cte_select(t, first_of_kind(t, named_children(t, node), {"select", "query_expr"})),
         LAMBDA select_node :
            IF select_node = None THEN None
            ELSE first_of_kind(t, named_children(t, select_node[1]), {"select_list"}))

\* get_cte_name unwraps the alias_name child before anything else is looked
\* at: on a cte node without one the visitor panics
CteVisitor_panics(t, node) == t[node].kind = "cte" /\ get_cte_name(t, node) = None

CteVisitor_visit(t, node, context) ==
    IF t[node].kind # "cte" THEN context
    ELSE With(cte_select_list(t, node), LAMBDA select_list :
              IF select_list = None THEN context
              ELSE add_cte(context, get_cte_name(t, node)[1],
                           extract_columns(t, select_list[1], context.cte_columns)))

(***************************************************************************)
(* visitors/select_star_visitor.rs: the final-SELECT-star marker.          *)
(***************************************************************************)
inside_cte(t, node) ==
    \E a \in 1..Len(t) : t[a].kind = "cte" /\ IsAncestor(t, a, node)

\* the (table, column) pairs of every registered column of one table
columns_of_table(context, table) ==
    IF table \in DOMAIN context.cte_columns
    THEN [i \in 1..Len(context.cte_columns[table]) |->
             <<table, context.cte_columns[table][i].column_name>>]
    ELSE <<>>

mark_source_columns_as_used(t, select_list, context) ==
    With(extract_table(t, next_named_sibling(t, select_list)), LAMBDA ft :
         mark_each(context,
                   Flatten([i \in 1..Len(ft.tables) |->
                               columns_of_table(context, ft.tables[i])])))

\* a star marker that does not ask whether the list is inside a CTE
SelectStarVisitor_visit_in_any_select(t, node, context) ==
    IF t[node].kind # "select_list" THEN context
    ELSE IF ~\E c \in Range(children(t, node)) : t[c].kind = "select_all" THEN context
    ELSE mark_source_columns_as_used(t, node, context)

SelectStarVisitor_visit(t, node, context) ==
    IF t[node].kind # "select_list" THEN context
    ELSE IF ~\E c \in Range(children(t, node)) : t[c].kind = "select_all" THEN context
    ELSE IF inside_cte(t, node) THEN context
    ELSE mark_source_columns_as_used(t, node, context)

(***************************************************************************)
(* visitors/select_visitor.rs: the SELECT-list marker.                     *)
(***************************************************************************)
is_final_select(t, node) == ~inside_cte(t, node)

\* a callee name: it ends the walk of its own subtree
stops_walk(t, kinds, a) == t[a].kind \in kinds /\ is_name_of_call(t, a)

\* the field and identifier nodes under root that the recursive walks reach
walked_refs(t, root, kinds) ==
    With(subtree(t, root), LAMBDA nodes :
         SelectSeq(nodes,
                   LAMBDA i : /\ t[i].kind \in kinds
                              /\ ~stops_walk(t, kinds, i)
                              /\ ~\E a \in Range(nodes) :
                                    stops_walk(t, kinds, a) /\ IsAncestor(t, a, i)))

\* the (table, column) pair marked for a reference that resolves to table
pair_of(table, column_text) ==
    IF table # <<>> THEN << <<table, extract_column_name(column_text)>> >> ELSE <<>>

\* the (table, column) pairs the walks mark for the nodes of refs
resolved_pairs(t, refs, tables, alias_map, cte_columns) ==
    With(refs, LAMBDA rs :
         Flatten([i \in 1..Len(rs) |->
                     pair_of(find_original_table(t[rs[i]].text, tables, alias_map, cte_columns),
                             t[rs[i]].text)]))

extract_field_references_from_expression(t, node, tables, alias_map, context) ==
    mark_each(context,
              resolved_pairs(t, walked_refs(t, node, {"field", "identifier"}),
                             tables, alias_map, context.cte_columns))

find_parent_cte_name(t, select_node) ==
    With(SelectIdx(t, LAMBDA a : t[a].kind = "cte" /\ IsAncestor(t, a, select_node)),
         LAMBDA ctes :
            IF ctes = <<>> THEN <<>>
            ELSE With(get_cte_name(t, ctes[Len(ctes)]),
                      LAMBDA name : IF name = None THEN <<>> ELSE name[1]))

RECURSIVE mark_expressions(_, _, _, _)
mark_expressions(t, exprs, ft, context) ==
    IF exprs = <<>> THEN context
    ELSE With(extract_field_references_from_expression(
                  t, Head(exprs), ft.tables, ft.alias_map, context),
              LAMBDA marked : mark_expressions(t, Tail(exprs), ft, marked))

\* a marker that reads the first select_expression of the list and no other
extract_and_mark_expression_columns_first_only(t, select_list, select_node, context) ==
    IF find_parent_cte_name(t, select_node) = <<>> THEN context
    ELSE With(extract_table(t, next_named_sibling(t, select_list)), LAMBDA ft :
         With(SelectSeq(children(t, select_list), LAMBDA c : t[c].kind = "select_expression"),
              LAMBDA exprs : mark_expressions(t, IF exprs = <<>> THEN <<>> ELSE <<exprs[1]>>, ft, context)))

extract_and_mark_expression_columns(t, select_list, select_node, context) ==
    IF find_parent_cte_name(t, select_node) = <<>> THEN context
    ELSE With(extract_table(t, next_named_sibling(t, select_list)), LAMBDA ft :
         With(SelectSeq(children(t, select_list), LAMBDA c : t[c].kind = "select_expression"),
              LAMBDA exprs : mark_expressions(t, exprs, ft, context)))

\* the root a select_expression queues when it holds no field node at all
fallback_root(t, child, ft, context) ==
    IF \E c \in Range(children(t, child)) : t[c].kind = "field" THEN <<>>
    ELSE pair_of(find_original_table(t[child].text, ft.tables, ft.alias_map,
                                     context.cte_columns),
                 t[child].text)

\* the roots one child of the final select_list queues
final_roots_of_child(t, child, ft, context) ==
    IF t[child].kind = "select_expression"
    THEN fallback_root(t, child, ft, context)
           \o resolved_pairs(t, walked_refs(t, child, {"field", "identifier"}),
                             ft.tables, ft.alias_map, context.cte_columns)
    ELSE IF t[child].kind = "select_all"
         THEN Flatten([i \in 1..Len(ft.tables) |-> columns_of_table(context, ft.tables[i])])
         ELSE <<>>

\* the final roots, as (table, column) pairs in the order they are queued
extract_final_select_columns(t, select_list, context) ==
    With(extract_table(t, next_named_sibling(t, select_list)), LAMBDA ft :
    With(children(t, select_list), LAMBDA kids :
         Flatten([i \in 1..Len(kids) |-> final_roots_of_child(t, kids[i], ft, context)])))

\* what a column entry of the marked table makes the worklist push
source_of(context, col_info, column_name) ==
    IF /\ \/ extract_column_name(col_info.column_name) = extract_column_name(column_name)
          \/ col_info.column_name = column_name
       /\ col_info.table_name # None
       /\ has_cte(context, extract_table_name(col_info.table_name[1]))
    THEN << <<extract_table_name(col_info.table_name[1]),
              IF col_info.original_column_name # None
              THEN col_info.original_column_name[1]
              ELSE col_info.column_name>> >>
    ELSE <<>>

\* what the worklist pushes after marking (table_name, column_name)
trace_sources(context, table_name, column_name) ==
    With(get_cte_columns(context, table_name), LAMBDA cols :
         IF cols = None THEN <<>>
         ELSE Flatten([i \in 1..Len(cols[1]) |-> source_of(context, cols[1][i], column_name)]))

\* a turn that marks and traces the popped pair without asking whether it
\* is marked already
worklist_step_without_skip(context, queue) ==
    With(mark_used(context, Head(queue)[1], Head(queue)[2]), LAMBDA marked :
         [context |-> marked,
          queue |-> Tail(queue) \o trace_sources(marked, Head(queue)[1], Head(queue)[2])])

\* one turn of the while loop of mark_used_columns, queue not empty
worklist_step(context, queue) ==
    IF is_column_used(context.graph, Head(queue)[1], Head(queue)[2])
    THEN [context |-> context, queue |-> Tail(queue)]
    ELSE With(mark_used(context, Head(queue)[1], Head(queue)[2]), LAMBDA marked :
              [context |-> marked,
               queue |-> Tail(queue) \o trace_sources(marked, Head(queue)[1], Head(queue)[2])])

\* the select_list of a select node, as an Option
select_list_of(t, node) == first_of_kind(t, named_children(t, node), {"select_list"})

\* a select visitor that leaves the select lists of CTE bodies unread
SelectVisitor_visit_cte_skipped(t, node, context) == context

\* the visit of a select inside a CTE; the final select runs the worklist
SelectVisitor_visit_cte(t, node, context) ==
    IF t[node].kind = "select" /\ ~is_final_select(t, node) /\ select_list_of(t, node) # None
    THEN extract_and_mark_expression_columns(t, select_list_of(t, node)[1], node, context)
    ELSE context

starts_worklist(t, node) ==
    t[node].kind = "select" /\ is_final_select(t, node) /\ select_list_of(t, node) # None

(***************************************************************************)
(* visitors/where_visitor.rs: WHERE, JOIN condition, GROUP BY and UNNEST.  *)
(***************************************************************************)
\* the from_clause of the nearest enclosing select that has one
enclosing_from(t, node) ==
    With(SelectIdx(t, LAMBDA a : /\ t[a].kind = "select"
                                 /\ IsAncestor(t, a, node)
                                 /\ first_of_kind(t, named_children(t, a),
                                                  {"from_clause"}) # None),
         LAMBDA sels :
            IF sels = <<>> THEN None
            ELSE first_of_kind(t, named_children(t, sels[Len(sels)]), {"from_clause"}))

extract_tables_from_parent(t, node) == extract_table(t, enclosing_from(t, node))

\* the table the WHERE marker gives a reference: a qualified one is taken
\* by its alias-resolved prefix, without asking find_original_table
condition_table(column_text, tables, alias_map, cte_columns) ==
    IF contains_dot(column_text)
    THEN IF extract_table_name(column_text) \in DOMAIN alias_map
         THEN alias_map[extract_table_name(column_text)]
         ELSE extract_table_name(column_text)
    ELSE find_original_table(column_text, tables, alias_map, cte_columns)

condition_pairs(t, refs, tables, alias_map, cte_columns) ==
    With(refs, LAMBDA rs :
         Flatten([i \in 1..Len(rs) |->
                     pair_of(condition_table(t[rs[i]].text, tables, alias_map, cte_columns),
                             t[rs[i]].text)]))

extract_columns_from_condition(t, node, tables, alias_map, cte_columns) ==
    condition_pairs(t,
                    SelectSeq(subtree(t, node),
                              LAMBDA i : /\ t[i].kind \in {"field", "identifier"}
                                         /\ ~is_function_name(t, i)),
                    tables, alias_map, cte_columns)

process_condition_node(t, node, context) ==
    With(extract_tables_from_parent(t, node), LAMBDA ft :
         mark_each(context,
                   extract_columns_from_condition(t, node, ft.tables, ft.alias_map,
                                                  context.cte_columns)))

\* the identifier and field nodes under one UNNEST
unnest_refs(t, u) ==
    SelectSeq(subtree(t, u), LAMBDA i : t[i].kind \in {"identifier", "field"})

process_unnest_in_from(t, from_node, context) ==
    With(extract_table(t, Some(from_node)), LAMBDA ft :
    With(SelectSeq(subtree(t, from_node),
                   LAMBDA u : t[u].kind \in {"unnest_operator", "unnest_clause"}),
         LAMBDA unnests :
            mark_each(context,
                      Flatten([k \in 1..Len(unnests) |->
                                  condition_pairs(t, unnest_refs(t, unnests[k]),
                                                  ft.tables, ft.alias_map,
                                                  context.cte_columns)]))))

\* a WHERE visitor that reads the conditions at the select node as well
WhereVisitor_visit_at_select(t, node, context) ==
    IF t[node].kind \in {"join_condition", "where_clause", "group_by_clause", "select"}
    THEN process_condition_node(t, node, context)
    ELSE IF t[node].kind = "from_clause"
         THEN process_unnest_in_from(t, node, context)
         ELSE context

WhereVisitor_visit(t, node, context) ==
    IF t[node].kind \in {"join_condition", "where_clause", "group_by_clause"}
    THEN process_condition_node(t, node, context)
    ELSE IF t[node].kind = "from_clause"
         THEN process_unnest_in_from(t, node, context)
         ELSE context

(***************************************************************************)
(* visitors/qualify_visitor.rs                                             *)
(***************************************************************************)
\* find_parent_select: the nearest enclosing select, as an Option
find_parent_select(t, node) ==
    With(SelectIdx(t, LAMBDA a : t[a].kind = "select" /\ IsAncestor(t, a, node)),
         LAMBDA sels : IF sels = <<>> THEN None ELSE Some(sels[Len(sels)]))

find_from_clause(t, select_node) ==
    first_of_kind(t, named_children(t, select_node), {"from_clause"})

\* extract_and_mark_fields of the QUALIFY and PIVOT visitors
extract_and_mark_fields(t, node, kinds, tables, alias_map, context) ==
    mark_each(context,
              resolved_pairs(t, walked_refs(t, node, kinds),
                             tables, alias_map, context.cte_columns))

\* a QUALIFY visitor that reads the clause's own children and goes no deeper
QualifyVisitor_visit_shallow(t, node, context) ==
    IF t[node].kind # "qualify_clause" THEN context
    ELSE With(find_parent_select(t, node), LAMBDA select_node :
              IF select_node = None THEN context
              ELSE With(extract_table(t, find_from_clause(t, select_node[1])), LAMBDA ft :
                        mark_each(context,
                                  resolved_pairs(t,
                                      SelectSeq(children(t, node),
                                                LAMBDA c : t[c].kind \in {"field", "identifier"}),
                                      ft.tables, ft.alias_map, context.cte_columns))))

QualifyVisitor_visit(t, node, context) ==
    IF t[node].kind # "qualify_clause" THEN context
    ELSE With(find_parent_select(t, node), LAMBDA select_node :
              IF select_node = None THEN context
              ELSE With(extract_table(t, find_from_clause(t, select_node[1])), LAMBDA ft :
                        extract_and_mark_fields(t, node, {"field", "identifier"},
                                                ft.tables, ft.alias_map, context)))

(***************************************************************************)
(* visitors/pivot_visitor.rs                                               *)
(***************************************************************************)
\* the tables of the nearest enclosing from_clause, or of the from_clause
\* of the nearest enclosing select that has one
find_tables_for_pivot(t, pivot_node) ==
    With(SelectIdx(t, LAMBDA a : /\ IsAncestor(t, a, pivot_node)
                                 /\ \/ t[a].kind = "from_clause"
                                    \/ /\ t[a].kind = "select"
                                       /\ find_from_clause(t, a) # None),
         LAMBDA hits :
            IF hits = <<>> THEN extract_table(t, None)
            ELSE IF t[hits[Len(hits)]].kind = "from_clause"
                 THEN extract_table(t, Some(hits[Len(hits)]))
                 ELSE extract_table(t, find_from_clause(t, hits[Len(hits)])))

\* a PIVOT visitor that reads the operator's own children and goes no deeper
PivotVisitor_visit_shallow(t, node, context) ==
    IF t[node].kind # "pivot_operator" THEN context
    ELSE With(find_tables_for_pivot(t, node), LAMBDA ft :
              mark_each(context,
                        resolved_pairs(t,
                            SelectSeq(children(t, node),
                                      LAMBDA c : t[c].kind \in {"field", "identifier",
                                                                "input_column"}),
                            ft.tables, ft.alias_map, context.cte_columns)))

PivotVisitor_visit(t, node, context) ==
    IF t[node].kind # "pivot_operator" THEN context
    ELSE With(find_tables_for_pivot(t, node), LAMBDA ft :
              extract_and_mark_fields(t, node, {"field", "identifier", "input_column"},
                                      ft.tables, ft.alias_map, context))

(***************************************************************************)
(* mod.rs: check.  Every node of the tree, in pre-order, is shown to the   *)
(* six visitors in turn; then the unused columns are collected and turned  *)
(* into diagnostics.                                                       *)
(***************************************************************************)
\* CteVisitor and SelectStarVisitor, which run before the SelectVisitor
visit_before_select(t, node, context) ==
    With(CteVisitor_visit(t, node, context),
         LAMBDA registered : SelectStarVisitor_visit(t, node, registered))

\* visitors/distinct_visitor.rs: the visitor check leaves out; on a select
\* with DISTINCT it marks every column of the enclosing CTE
DistinctVisitor_visit(t, node, context) ==
    IF t[node].kind # "select" THEN context
    ELSE IF ~\E c \in Range(children(t, node)) : t[c].text = <<"DISTINCT">> THEN context
    ELSE With(SelectIdx(t, LAMBDA a : t[a].kind = "cte" /\ IsAncestor(t, a, node)),
              LAMBDA ctes :
                 IF ctes = <<>> THEN context
                 ELSE With(get_cte_name(t, ctes[Len(ctes)]), LAMBDA name :
                           mark_each(context,
                                     columns_of_table(context,
                                                      IF name = None THEN <<>> ELSE name[1]))))

\* the visitors after the SelectVisitor, with the DistinctVisitor among them
visit_after_select_with_distinct(t, node, context) ==
    With(WhereVisitor_visit(t, node, context), LAMBDA after_where :
    With(QualifyVisitor_visit(t, node, after_where), LAMBDA after_qualify :
    With(PivotVisitor_visit(t, node, after_qualify), LAMBDA after_pivot :
         DistinctVisitor_visit(t, node, after_pivot))))

\* WhereVisitor, QualifyVisitor and PivotVisitor, which run after it
visit_after_select(t, node, context) ==
    With(WhereVisitor_visit(t, node, context), LAMBDA after_where :
    With(QualifyVisitor_visit(t, node, after_where), LAMBDA after_qualify :
         PivotVisitor_visit(t, node, after_qualify)))

\* Diagnostic::new(col.row, col.col, format!("Unused column: {}", col.column_name))
Diagnostic_new(row, col, message) == [row |-> row, col |-> col, message |-> message]

to_diagnostic(col) ==
    Diagnostic_new(col.row, col.col, <<"Unused column: ">> \o col.column_name)

\* a return value that wraps the list even when it is empty
check_result_always_some(unused_columns) ==
    Some([i \in 1..Len(unused_columns) |-> to_diagnostic(unused_columns[i])])

\* the value check returns: None, or Some of the list of diagnostics
check_result(unused_columns) ==
    IF unused_columns = <<>> THEN None
    ELSE Some([i \in 1..Len(unused_columns) |-> to_diagnostic(unused_columns[i])])

(***************************************************************************)
(* The inputs: syntax trees as the BigQuery grammar shapes them.  A query  *)
(* is described by its CTEs and its final SELECT; Parse lays the           *)
(* description out as a tree, each CTE and the final SELECT on a line of   *)
(* its own.  Column references are leaves: an unqualified one is an        *)
(* identifier, a qualified one a field; a table name is an identifier.     *)
(***************************************************************************)
FirstLeaf(sub) == CHOOSE i \in 1..Len(sub) :
                      IsLeaf(sub, i) /\ \A j \in 1..(i - 1) : ~IsLeaf(sub, j)
StartsLine(sub) ==
    LET flag(sv) == [sv EXCEPT ![FirstLeaf(sv)].nl = TRUE] IN With(sub, flag)

Star == [k |-> "star", txt |-> <<>>, fn |-> "", alias |-> ""]
Col(txt) == [k |-> "ref", txt |-> txt, fn |-> "", alias |-> ""]
ColAs(txt, alias) == [k |-> "ref", txt |-> txt, fn |-> "", alias |-> alias]
Call(fn, txt) == [k |-> "call", txt |-> txt, fn |-> fn, alias |-> ""]
CallAs(fn, txt, alias) == [k |-> "call", txt |-> txt, fn |-> fn, alias |-> alias]
Lit == [k |-> "lit", txt |-> <<"1">>, fn |-> "", alias |-> ""]
Tbl(name) == [tbl |-> name, alias |-> ""]
TblAs(name, alias) == [tbl |-> name, alias |-> alias]

RefTree(txt) == Leaf(IF contains_dot(txt) THEN "field" ELSE "identifier", txt)
RefTrees(txts) == [i \in 1..Len(txts) |-> RefTree(txts[i])]

CallTree(fn, args) ==
    Inner("function_call",
          << WithField(Leaf("identifier", Str(fn)), "function"), Token("(") >>
              \o args \o << Token(")") >>)

AliasTree(alias, kw) ==
    Clause("as_alias", kw \o << WithField(Leaf("identifier", Str(alias)), "alias_name") >>)

ItemTree(it) ==
    IF it.k = "star" THEN Leaf("select_all", <<"*">>)
    ELSE Inner("select_expression",
               << IF it.k = "call" THEN CallTree(it.fn, << RefTree(it.txt) >>)
                  ELSE IF it.k = "lit" THEN Leaf("number", it.txt)
                  ELSE RefTree(it.txt) >>
               \o (IF it.alias = "" THEN <<>> ELSE << AliasTree(it.alias, << Token("AS") >>) >>))

\* PIVOT(sum(agg) FOR target IN ('v' AS v))
PivotTree(agg, target) ==
    Clause("pivot_operator",
          << Token("PIVOT"), Token("("), CallTree("sum", << RefTree(agg) >>), Token("FOR"),
             WithField(RefTree(target), "input_column"), Token("IN"), Token("("),
             Clause("pivot_value", << Leaf("string", <<"'v'">>),
                                      AliasTree("v", << Token("AS") >>) >>),
             Token(")"), Token(")") >>)

\* (SELECT items FROM tbl), a subquery in the place of a table
SubqueryTree(items, tbl) ==
    Clause("select_subexpression",
          << Token("("),
             Clause("select",
                   << Token("SELECT"),
                      Clause("select_list", [i \in 1..Len(items) |-> ItemTree(items[i])]),
                      Clause("from_clause",
                            << Clause("from_item", << Leaf("identifier", tbl) >>) >>) >>),
             Token(")") >>)

\* a table of the FROM clause, with its PIVOT and its alias when it has them;
\* an item described with a "sub" field is a subquery that reads the table
FromItemTree(e) ==
    Clause("from_item",
          << IF "sub" \in DOMAIN e THEN SubqueryTree(e.sub, e.tbl)
             ELSE Leaf("identifier", e.tbl) >>
              \o (IF "pivot" \in DOMAIN e THEN << PivotTree(e.pivot[1], e.pivot[2]) >> ELSE <<>>)
              \o (IF e.alias = "" THEN <<>> ELSE << AliasTree(e.alias, <<>>) >>))

\* FROM x, or FROM x JOIN y ON l = r
FromTree(from, on) ==
    IF Len(from) = 1
    THEN Clause("from_clause", << FromItemTree(from[1]) >>)
    ELSE Clause("from_clause",
           << Clause("from_item",
                << Clause("join_operation",
                     << FromItemTree(from[1]), FromItemTree(from[2]),
                        Clause("join_condition",
                              << Inner("binary_expression",
                                       << RefTree(on[1]), Token("="), RefTree(on[2]) >>) >>)
                     >>) >>) >>)

\* QUALIFY row_number() OVER (PARTITION BY refs)
QualifyTree(refs) ==
    Clause("qualify_clause",
          << CallTree("row_number", << Clause("over_clause", RefTrees(refs)) >>) >>)

SelectTree(sel) ==
    Clause("select",
          << Token("SELECT") >>
          \o (IF sel.distinct THEN << Token("DISTINCT") >> ELSE <<>>)
          \o << Clause("select_list", [i \in 1..Len(sel.items) |-> ItemTree(sel.items[i])]) >>
          \o (IF sel.from = <<>> THEN <<>> ELSE << FromTree(sel.from, sel.on) >>)
          \o (IF sel.where = <<>> THEN <<>>
              ELSE << Clause("where_clause", RefTrees(sel.where)) >>)
          \o (IF sel.groupby = <<>> THEN <<>>
              ELSE << Clause("group_by_clause", RefTrees(sel.groupby)) >>)
          \o (IF sel.qualify = <<>> THEN <<>> ELSE << QualifyTree(sel.qualify) >>))

RECURSIVE CteTree(_)
\* name AS (body); a CTE described with a "with" field carries CTEs of its
\* own in its body, one described with the name "" has no alias_name child
CteTree(c) ==
    StartsLine(Clause("cte",
        (IF c.name = "" THEN <<>>
         ELSE << WithField(Leaf("identifier", Str(c.name)), "alias_name") >>)
        \o << Clause("query_expr",
                     (IF "with" \in DOMAIN c
                      THEN << Clause("cte_clause",
                                    [i \in 1..Len(c.with) |-> CteTree(c.with[i])]) >>
                      ELSE <<>>)
                     \o << SelectTree(c.body) >>) >>))

\* one statement: WITH ctes final
QueryTree(q) ==
    Clause("query_expr",
        (IF q.ctes = <<>> THEN <<>>
         ELSE << Clause("cte_clause", [i \in 1..Len(q.ctes) |-> CteTree(q.ctes[i])]) >>)
        \o << StartsLine(SelectTree(q.final)) >>)

\* a query described with a "then" field is a script of two statements
Parse(q) ==
    Layout(IF "then" \in DOMAIN q
           THEN Clause("source_file", << QueryTree(q), StartsLine(QueryTree(q.then)) >>)
           ELSE QueryTree(q))

\* SELECT items FROM from, with nothing else
Select(items, from) ==
    [distinct |-> FALSE, items |-> items, from |-> from, on |-> <<>>,
     where |-> <<>>, groupby |-> <<>>, qualify |-> <<>>]

\* sql/unused_column_in_cte_simple.sql
SimpleQuery ==
    [ctes |-> <<
        [name |-> "data1",
         body |-> Select(<< Col(Str("column1")), Col(Str("column2")),
                            Col(Str("unused_column1")) >>, << Tbl(Str("t1")) >>)],
        [name |-> "data2",
         body |-> Select(<< Col(Str("column3")), Col(Str("unused_column2")) >>,
                         << Tbl(Str("t2")) >>)],
        [name |-> "data3",
         body |-> [Select(<< Col(Qual("data1", "column1")), Col(Qual("data1", "column2")),
                             Col(Qual("data2", "column3")) >>,
                          << Tbl(Str("data1")), Tbl(Str("data2")) >>)
                   EXCEPT !.on = << Qual("data1", "column1"), Qual("data2", "column3") >>]]
     >>,
     final |-> Select(<< Star >>, << Tbl(Str("data3")) >>)]

\* the sequences that list every element of S once
Orders(S) == {o \in [1..Cardinality(S) -> S] : \A x \in S : \E i \in DOMAIN o : o[i] = x}

(***************************************************************************)
(* check as a function of the tree: the traversal and the collection in    *)
(* one go, the map read in one fixed order.                                *)
(***************************************************************************)
RECURSIVE drain(_, _)
\* the while loop of mark_used_columns, run to the end
drain(context, queue) ==
    IF queue = <<>> THEN context
    ELSE With(worklist_step(context, queue), LAMBDA step : drain(step.context, step.queue))

\* SelectVisitor::visit
SelectVisitor_visit(t, node, context) ==
    IF starts_worklist(t, node)
    THEN drain(context,
               extract_final_select_columns(t, select_list_of(t, node)[1], context))
    ELSE SelectVisitor_visit_cte(t, node, context)

\* one turn of the traversal loop
visit_node(t, node, context) ==
    With(visit_before_select(t, node, context), LAMBDA before :
    With(SelectVisitor_visit(t, node, before), LAMBDA selected :
         visit_after_select(t, node, selected)))

RECURSIVE traverse_from(_, _, _)
traverse_from(t, node, context) ==
    IF node > Len(t) THEN context
    ELSE With(visit_node(t, node, context), LAMBDA visited : traverse_from(t, node + 1, visited))

check(t) ==
    With(traverse_from(t, 1, AnalysisContext_new), LAMBDA visited :
         check_result(collect_unused(visited,
                                     CHOOSE order \in Orders(DOMAIN visited.graph) : TRUE)))

(***************************************************************************)
(* The queries the rule is run on: a generated family of chains of CTEs    *)
(* and two fixed scenarios.                                                *)
(***************************************************************************)
CteNames == << "a", "b", "c", "d" >>
Physical == Str("t")
ColC1 == Str("c1")
ColC2 == Str("c2")
ColX == Str("x")

\* the bodies a generated CTE can have, reading from table s
BodyShapes == {"cols", "alias", "star", "qual", "call"}

Body(shape, s) ==
    CASE shape = "cols"  -> Select(<< Col(ColC1), Col(ColC2) >>, << Tbl(s) >>)
      [] shape = "alias" -> Select(<< ColAs(ColC1, "x"), Col(ColC2) >>, << Tbl(s) >>)
      [] shape = "star"  -> Select(<< Star >>, << Tbl(s) >>)
      [] shape = "qual"  -> [Select(<< Col(Qual("q", "c1")), ColAs(Qual("q", "c2"), "x") >>,
                                    << TblAs(s, "q") >>)
                               EXCEPT !.distinct = TRUE]
      [] shape = "call"  -> [Select(<< CallAs("f", ColC1, "c2"), Col(ColX) >>, << Tbl(s) >>)
                               EXCEPT !.where = << ColC2 >>, !.groupby = << ColX >>]

\* the final SELECTs, reading from table s (and, for a join, from prev too)
FinalShapes == {"star", "c1", "x", "qualify", "where", "join", "none"}

Final(shape, s, prev) ==
    CASE shape = "star"    -> Select(<< Star >>, << Tbl(s) >>)
      [] shape = "c1"      -> Select(<< Col(ColC1) >>, << Tbl(s) >>)
      [] shape = "x"       -> Select(<< ColAs(ColX, "c2") >>, << Tbl(s) >>)
      [] shape = "qualify" -> [Select(<< Col(ColC2) >>, << Tbl(s) >>)
                                  EXCEPT !.qualify = << ColC1 >>]
      [] shape = "where"   -> [Select(<< Call("f", ColC1) >>, << Tbl(s) >>)
                                  EXCEPT !.where = << ColC2 >>]
      [] shape = "join"    -> [Select(<< Col(Qual("l", "c1")), Col(ColX) >>,
                                      << TblAs(prev, "l"), Tbl(s) >>)
                                  EXCEPT !.on = << Qual("l", "c2"), s \o << Dot, "c2" >> >>]
      [] shape = "none"    -> Select(<< Lit >>, <<>>)

\* the table generated CTE k reads from: the CTE before it, or the physical table
SourceOf(k) == IF k = 1 THEN Physical ELSE Str(CteNames[k - 1])

\* the queries of at most m CTEs: CTE k reads from CTE k - 1, the final
\* SELECT from any of them or from the physical table
Generated(m) ==
    { [ctes |-> [k \in 1..n |-> [name |-> CteNames[k], body |-> Body(shapes[k], SourceOf(k))]],
       final |-> Final(f, SourceOf(src + 1), SourceOf(n + 1))] :
        <<n, shapes, f, src>> \in
            UNION { {n} \X [1..n -> BodyShapes] \X FinalShapes \X (0..n) : n \in 0..m } }

\* the CTE of the DISTINCT scenario, consumed through col1 alone
DistinctQuery ==
    [ctes |-> << [name |-> "cte1",
                  body |-> [Select(<< Col(Str("col1")), Col(Str("col2")), Col(Str("col3")) >>,
                                   << Tbl(Str("table1")) >>) EXCEPT !.distinct = TRUE]] >>,
     final |-> Select(<< Col(Str("col1")) >>, << Tbl(Str("cte1")) >>)]

\* a renamed column read by a later CTE that the final SELECT leaves aside
AliasChainQuery ==
    [ctes |-> << [name |-> "a", body |-> Body("cols", Physical)],
                 [name |-> "b", body |-> Body("alias", Str("a"))],
                 [name |-> "c", body |-> Body("call", Str("b"))] >>,
     final |-> Final("none", Physical, Physical)]

Scenarios == {SimpleQuery, DistinctQuery, AliasChainQuery}

\* visitors/pivot_visitor.rs, test_pivot_visitor
PivotQuery ==
    [ctes |-> << [name |-> "raw_data",
                  body |-> Select(<< Col(Str("category")), Col(Str("month")),
                                     Col(Str("value")), Col(Str("unused")) >>,
                                  << Tbl(Str("table1")) >>)] >>,
     final |-> Select(<< Col(Str("category")) >>,
                      << [tbl |-> Str("raw_data"), alias |-> "",
                          pivot |-> << Str("value"), Str("month") >>] >>)]

\* trees at the edge of what the grammar gives: a CTE without a name, CTEs
\* that read from themselves or from each other, a reference with a prefix
\* that names no table, a chain of three CTEs with a star in the middle, a
\* CTE defined inside the body of another, a script of two statements that
\* both define a CTE named a, a star between two items over a join, and a
\* CTE with a column named as the function the final SELECT calls, and a
\* final SELECT that reads from a subquery
EdgeQueries ==
    { [ctes |-> << [name |-> "", body |-> Body("cols", Physical)] >>,
       final |-> Final("c1", Physical, Physical)],
      [ctes |-> << [name |-> "a", body |-> Body("cols", Str("a"))] >>,
       final |-> Final("c1", Str("a"), Physical)],
      [ctes |-> << [name |-> "a", body |-> Body("cols", Str("b"))],
                   [name |-> "b", body |-> Body("alias", Str("a"))] >>,
       final |-> Final("x", Str("b"), Physical)],
      [ctes |-> << [name |-> "a", body |-> Body("cols", Physical)] >>,
       final |-> [Select(<< Col(ColC1) >>, << Tbl(Str("a")) >>)
                     EXCEPT !.where = << Qual("z", "c2") >>]],
      [ctes |-> << [name |-> "a", body |-> Body("cols", Physical)],
                   [name |-> "b", body |-> Body("star", Str("a"))],
                   [name |-> "c", body |-> Body("cols", Str("b"))] >>,
       final |-> Final("c1", Str("c"), Physical)],
      [ctes |-> << [name |-> "b", body |-> Body("star", Str("a")),
                    with |-> << [name |-> "a", body |-> Body("cols", Physical)] >>] >>,
       final |-> Final("c1", Str("b"), Physical)],
      [ctes |-> << [name |-> "a", body |-> Body("cols", Physical)] >>,
       final |-> Final("c1", Str("a"), Physical),
       then |-> [ctes |-> << [name |-> "a", body |-> Body("alias", Physical)] >>,
                 final |-> Final("x", Str("a"), Physical)]],
      [ctes |-> << [name |-> "a", body |-> Body("alias", Physical)],
                   [name |-> "b", body |-> Body("cols", Physical)],
                   [name |-> "c",
                    body |-> [Select(<< Col(ColC2), Star, Col(ColX) >>,
                                     << Tbl(Str("b")), Tbl(Str("a")) >>)
                                 EXCEPT !.on = << Qual("b", "c1"), Qual("a", "c2") >>]] >>,
       final |-> Final("star", Str("c"), Physical)],
      [ctes |-> << [name |-> "a",
                    body |-> Select(<< Col(Str("f")), Col(ColC2) >>, << Tbl(Physical) >>)] >>,
       final |-> Select(<< Call("f", ColC2) >>, << Tbl(Str("a")) >>)],
      [ctes |-> << [name |-> "a", body |-> Body("cols", Physical)] >>,
       final |-> Select(<< Col(ColC2) >>,
                        << [tbl |-> Str("a"), alias |-> "s", sub |-> << Col(ColC1) >>] >>)],
      PivotQuery }

(***************************************************************************)
(* The state of one call of check: the tree it was given, its context,     *)
(* the node the traversal loop is at, the worklist of mark_used_columns    *)
(* while it runs, the unused columns collected and the value returned;     *)
(* run counts the calls and previous keeps what the call before returned.  *)
(***************************************************************************)
VARIABLES tree, context, pc, phase, queue, unused, result, run, previous

vars == <<tree, context, pc, phase, queue, unused, result, run, previous>>

InitOn(queries) ==
    /\ \E q \in queries : tree = Parse(q)
    /\ context = AnalysisContext_new
    /\ pc = 1
    /\ phase = "visit"
    /\ queue = <<>>
    /\ unused = <<>>
    /\ result = None
    /\ run = 1
    /\ previous = None

Init == InitOn(Generated(MaxCtes) \cup Scenarios \cup EdgeQueries)

\* a turn of the traversal loop on a node that starts no worklist
Visit ==
    /\ phase = "visit"
    /\ pc <= Len(tree)
    /\ ~starts_worklist(tree, pc)
    /\ ~CteVisitor_panics(tree, pc)
    /\ \E before \in {visit_before_select(tree, pc, context)} :
          \E selected \in {SelectVisitor_visit_cte(tree, pc, before)} :
             context' = visit_after_select(tree, pc, selected)
    /\ pc' = pc + 1
    /\ UNCHANGED <<tree, phase, queue, unused, result, run, previous>>

\* the turn on a cte node without a name: the unwrap in get_cte_name panics
\* and check never returns
Panic ==
    /\ phase = "visit"
    /\ pc <= Len(tree)
    /\ CteVisitor_panics(tree, pc)
    /\ phase' = "panicked"
    /\ UNCHANGED <<tree, context, pc, queue, unused, result, run, previous>>

\* the turn on the final select, up to the queue of final roots
VisitFinalSelect ==
    /\ phase = "visit"
    /\ pc <= Len(tree)
    /\ starts_worklist(tree, pc)
    /\ \E before \in {visit_before_select(tree, pc, context)} :
          /\ context' = before
          /\ queue' = extract_final_select_columns(tree, select_list_of(tree, pc)[1], before)
    /\ phase' = "worklist"
    /\ UNCHANGED <<tree, pc, unused, result, run, previous>>

\* one turn of the while loop of mark_used_columns
WorklistStep ==
    /\ phase = "worklist"
    /\ queue # <<>>
    /\ \E step \in {worklist_step(context, queue)} :
          /\ context' = step.context
          /\ queue' = step.queue
    /\ UNCHANGED <<tree, pc, phase, unused, result, run, previous>>

\* the queue is empty: the remaining visitors see the node, the loop goes on
WorklistDone ==
    /\ phase = "worklist"
    /\ queue = <<>>
    /\ context' = visit_after_select(tree, pc, context)
    /\ pc' = pc + 1
    /\ phase' = "visit"
    /\ UNCHANGED <<tree, queue, unused, result, run, previous>>

\* the traversal is over: collect, in whatever order the map yields the CTEs
Collect ==
    /\ phase = "visit"
    /\ pc > Len(tree)
    /\ \E order \in Orders(DOMAIN context.graph) :
          \E unused_columns \in {collect_unused(context, order)} :
             /\ unused' = unused_columns
             /\ result' = check_result(unused_columns)
    /\ phase' = "done"
    /\ UNCHANGED <<tree, context, pc, queue, run, previous>>

Next == Visit \/ Panic \/ VisitFinalSelect \/ WorklistStep \/ WorklistDone \/ Collect

Spec == Init /\ [][Next]_vars

(***************************************************************************)
(* check called a second time on the same tree: the call builds its own    *)
(* context (mod.rs line 21); previous keeps what the first call returned.  *)
(***************************************************************************)
MaxCtesTwice == 1

CheckAgain ==
    /\ phase = "done"
    /\ run = 1
    /\ context' = AnalysisContext_new
    /\ pc' = 1
    /\ phase' = "visit"
    /\ queue' = <<>>
    /\ unused' = <<>>
    /\ result' = None
    /\ run' = 2
    /\ previous' = Some(result)
    /\ UNCHANGED tree

InitTwice == InitOn(Generated(MaxCtesTwice) \cup Scenarios \cup EdgeQueries)

NextTwice == Next \/ CheckAgain

SpecTwice == InitTwice /\ [][NextTwice]_vars

(***************************************************************************)
(* The context used directly, as the unit tests of graph.rs and context.rs *)
(* use it: CTEs are added and columns marked in any order, with qualified  *)
(* as well as plain names, and then the unused columns are collected.      *)
(***************************************************************************)
ApiTables == {Str("cte1"), Str("cte2")}
ApiNames == {Str("col1"), Qual("cte1", "col1"), Str("col2")}

ApiColumns(table) ==
    {<< ColumnInfo_new(Some(table), n1, None, 0, 0) >> : n1 \in ApiNames}
      \cup {<< ColumnInfo_new(Some(table), n1, None, 0, 0),
               ColumnInfo_new(Some(table), n2, None, 0, 5) >> : n1, n2 \in ApiNames}

InitApi ==
    /\ tree = <<>>
    /\ context = AnalysisContext_new
    /\ pc = 0
    /\ phase = "api"
    /\ queue = <<>>
    /\ unused = <<>>
    /\ result = None
    /\ run = 1
    /\ previous = None

ApiAddCte ==
    /\ phase = "api"
    /\ \E table \in ApiTables : \E columns \in ApiColumns(table) :
          context' = add_cte(context, table, columns)
    /\ UNCHANGED <<tree, pc, phase, queue, unused, result, run, previous>>

ApiMarkUsed ==
    /\ phase = "api"
    /\ \E table \in ApiTables : \E name \in ApiNames :
          context' = mark_used(context, table, name)
    /\ UNCHANGED <<tree, pc, phase, queue, unused, result, run, previous>>

ApiCollect ==
    /\ phase = "api"
    /\ \E order \in Orders(DOMAIN context.graph) :
          unused' = collect_unused(context, order)
    /\ phase' = "collected"
    /\ UNCHANGED <<tree, context, pc, queue, result, run, previous>>

NextApi == ApiAddCte \/ ApiMarkUsed \/ ApiCollect

SpecApi == InitApi /\ [][NextApi]_vars

(***************************************************************************)
(* The functions of utils.rs and models.rs called directly, on arguments   *)
(* of every shape: one call per behaviour, its arguments held in queue and *)
(* the value it returns in result.                                         *)
(***************************************************************************)
\* the contexts of the calls: none, one or two CTEs registered
UtilContexts ==
    LET lists == {<< ColumnInfo_new(Some(Physical), ColC1, None, 0, 7) >>,
                  << ColumnInfo_new(Some(Physical), ColC2, None, 0, 7) >>,
                  << ColumnInfo_new(Some(Physical), Qual("t", "c1"), None, 0, 7),
                     ColumnInfo_new(Some(Physical), ColC2, None, 0, 13) >>}
    IN {AnalysisContext_new}
         \cup {add_cte(AnalysisContext_new, Str("a"), ca) : ca \in lists}
         \cup {add_cte(add_cte(AnalysisContext_new, Str("a"), ca), Str("b"), cb) :
                  ca, cb \in lists}

\* the calls of find_original_table: a reference, the FROM tables, the aliases
ResolveCalls ==
    LET names == {Str("a"), Str("b"), Physical}
    IN {[fn |-> "find_original_table", column |-> c, tables |-> ts, alias_map |-> am] :
           c \in {ColC1, ColC2, Qual("a", "c1"), Qual("q", "c1"), Qual("z", "c1"),
                  Qual("t", "c2")},
           ts \in {<<>>} \cup {<<x>> : x \in names} \cup {<<x, y>> : x, y \in names},
           am \in {EmptyMap, MapInsert(EmptyMap, Str("q"), Str("a")),
                   MapInsert(EmptyMap, Str("q"), Str("z"))}}

\* the comparisons of two ColumnInfo values
CompareCalls ==
    LET infos == {ColumnInfo_new(Some(Physical), name, original, row, col) :
                     name \in {ColC1, ColC2}, original \in {None, Some(ColC1)},
                     row \in 0..1, col \in 0..1}
    IN {[fn |-> "eq", a |-> a, b |-> b] : a, b \in infos}

InitUtil ==
    /\ tree = <<>>
    /\ pc = 0
    /\ phase = "call"
    /\ \/ context \in UtilContexts /\ \E call \in ResolveCalls : queue = <<call>>
       \/ context = AnalysisContext_new /\ \E call \in CompareCalls : queue = <<call>>
    /\ unused = <<>>
    /\ result = None
    /\ run = 1
    /\ previous = None

CallFindOriginalTable ==
    /\ phase = "call"
    /\ queue[1].fn = "find_original_table"
    /\ result' = Some(find_original_table(queue[1].column, queue[1].tables,
                                          queue[1].alias_map, context.cte_columns))
    /\ phase' = "returned"
    /\ UNCHANGED <<tree, context, pc, queue, unused, run, previous>>

\* a == b and a.cmp(&b)
CallColumnInfoEq ==
    /\ phase = "call"
    /\ queue[1].fn = "eq"
    /\ result' = Some([eq |-> ColumnInfo_eq(queue[1].a, queue[1].b),
                       cmp |-> ColumnInfo_cmp(queue[1].a, queue[1].b)])
    /\ phase' = "returned"
    /\ UNCHANGED <<tree, context, pc, queue, unused, run, previous>>

NextUtil == CallFindOriginalTable \/ CallColumnInfoEq

SpecUtil == InitUtil /\ [][NextUtil]_vars
(***************************************************************************)
(* Vocabulary of the properties.                                           *)
(***************************************************************************)
\* check has returned
Done == phase = "done"

\* the diagnostics check returned, none when it returned None
Diagnostics == IF result = None THEN <<>> ELSE result[1]

\* the messages of a returned value, in order
Messages(returned) ==
    IF returned = None THEN <<>> ELSE [i \in DOMAIN returned[1] |-> returned[1][i].message]

\* column entry col has a diagnostic
Reported(col) == \E i \in DOMAIN Diagnostics : Diagnostics[i] = to_diagnostic(col)

\* the column entries registered for CTE name
ColumnsOf(name) == Range(context.graph[name].columns)

\* the nodes that name table name in a FROM clause
TableMentions(t, name) ==
    {i \in 1..Len(t) : /\ t[i].kind = "identifier"
                       /\ t[i].parent # 0
                       /\ t[t[i].parent].kind = "from_item"
                       /\ t[i].text = name}

\* select node s is SELECT *: its list holds the asterisk and nothing else
IsSelectStar(t, s) ==
    LET list == select_list_of(t, s)
    IN /\ list # None
       /\ named_children(t, list[1]) # <<>>
       /\ \A k \in Range(named_children(t, list[1])) : t[k].kind = "select_all"

\* table name is read, and only by SELECT * statements
OnlyStarConsumed(t, name) ==
    /\ TableMentions(t, name) # {}
    /\ \A i \in TableMentions(t, name) :
          /\ find_parent_select(t, i) # None
          /\ IsSelectStar(t, find_parent_select(t, i)[1])

(***************************************************************************)
(* C1.  A CTE that is consumed only as the FROM table of SELECT *          *)
(* statements, of a later CTE or of the final query, has none of its       *)
(* columns in the diagnostics: the asterisk uses them all.  The rule      *)
(* breaks this on                                                          *)
(*   WITH a AS (SELECT c1 AS x, c2 FROM t), b AS (SELECT * FROM a)         *)
(*   SELECT * FROM b                                                       *)
(* where it reports column x of a.                                         *)
(***************************************************************************)
StarConsumptionUsesAll ==
    Done => \A name \in DOMAIN context.graph :
                OnlyStarConsumed(tree, name)
                    => \A col \in ColumnsOf(name) : ~Reported(col)

(***************************************************************************)
(* C2.  On the query of unused_column_in_cte_simple.sql the diagnostics    *)
(* are exactly "Unused column: unused_column1" and then                    *)
(* "Unused column: unused_column2"; column1, column2 and column3 are not   *)
(* reported.                                                               *)
(***************************************************************************)
SimpleScenario ==
    (Done /\ tree = Parse(SimpleQuery))
        => Messages(result) = << <<"Unused column: ", "unused_column1">>,
                                 <<"Unused column: ", "unused_column2">> >>

SimpleScenarioChecked == Done /\ tree = Parse(SimpleQuery) /\ result # None
(***************************************************************************)
(* C3.  Aliasing invariance: when a CTE B defines a column col1 AS x whose *)
(* source col1 comes from an earlier CTE A, and x of B is referenced       *)
(* downstream, then after check col1 is marked used in A and no column     *)
(* col1 of A is reported.                                                  *)
(***************************************************************************)
\* node r reads a column: it is no table name, alias name or callee
IsColumnRef(t, r) ==
    /\ t[r].kind \in {"identifier", "field"}
    /\ t[r].parent # 0
    /\ t[t[r].parent].kind \notin {"from_item", "as_alias", "cte"}
    /\ t[r].fld \notin {"function", "alias_name"}

\* column x of CTE name is read by a select that has name in its FROM
ReferencedDownstream(t, name, x) ==
    \E r \in 1..Len(t) :
        /\ IsColumnRef(t, r)
        /\ extract_column_name(t[r].text) = x
        /\ find_parent_select(t, r) # None
        /\ name \in Range(extract_table(t, find_from_clause(t, find_parent_select(t, r)[1])).tables)

\* the select_expression nodes with an alias that define a column of a CTE
AliasedItems(t) ==
    {e \in 1..Len(t) : /\ t[e].kind = "select_expression"
                       /\ first_of_kind(t, children(t, e), {"as_alias"}) # None
                       /\ inside_cte(t, e)}

\* column entry b, registered for CTE name, is such a col1 AS x taken from
\* CTE src, and x is referenced downstream
AliasOfCteColumn(name, b, src) ==
    /\ \E e \in AliasedItems(tree) : /\ b.row = tree[e].row + 1
                                      /\ b.col = tree[e].col + 1
                                      /\ find_parent_cte_name(tree, e) = name
    /\ b.table_name = Some(src)
    /\ src \in DOMAIN context.graph
    /\ src # name
    /\ b.original_column_name # None
    /\ \E a \in ColumnsOf(src) : extract_column_name(a.column_name) = b.original_column_name[1]
    /\ ReferencedDownstream(tree, name, b.column_name)

AliasingInvariance ==
    Done => \A name \in DOMAIN context.graph : \A b \in ColumnsOf(name) :
               \A src \in DOMAIN context.graph :
                  AliasOfCteColumn(name, b, src)
                     => /\ b.original_column_name[1] \in context.graph[src].used_column_names
                        /\ \A a \in ColumnsOf(src) :
                              extract_column_name(a.column_name) = b.original_column_name[1]
                                 => ~Reported(a)

AliasingInvarianceChecked ==
    /\ Done
    /\ \E name \in DOMAIN context.graph : \E b \in ColumnsOf(name) :
          \E src \in DOMAIN context.graph : AliasOfCteColumn(name, b, src)

(***************************************************************************)
(* C4.  DISTINCT is not a usage marker: for a CTE defined as               *)
(* SELECT DISTINCT col1, col2, col3 and consumed through col1 alone, check *)
(* reports col2 and col3; and the diagnostics of any query name the same   *)
(* columns on the same lines as those of the query with every DISTINCT     *)
(* taken out.                                                              *)
(***************************************************************************)
HasDistinct(t) == \E i \in 1..Len(t) : t[i].kind = "DISTINCT"

\* the tree of the same query without its DISTINCT keywords
StripDistinct(t) ==
    With(SelectIdx(t, LAMBDA i : t[i].kind # "DISTINCT"), LAMBDA keep :
         Layout([k \in 1..Len(keep) |->
                    [t[keep[k]] EXCEPT !.parent =
                        IF @ = 0 THEN 0
                        ELSE @ - Cardinality({d \in 1..@ : t[d].kind = "DISTINCT"})]]))

\* what a returned value names, and on which lines
NamesAndRows(returned) ==
    IF returned = None THEN <<>>
    ELSE [i \in DOMAIN returned[1] |-> <<returned[1][i].message, returned[1][i].row>>]

DistinctIsNoMarker ==
    Done => /\ tree = Parse(DistinctQuery)
                => Messages(result) = << <<"Unused column: ", "col2">>,
                                         <<"Unused column: ", "col3">> >>
            /\ HasDistinct(tree)
                => NamesAndRows(result) = NamesAndRows(check(StripDistinct(tree)))

DistinctIsNoMarkerChecked ==
    /\ Done
    /\ tree = Parse(DistinctQuery)
    /\ HasDistinct(tree)
    /\ StripDistinct(tree) = Parse([DistinctQuery EXCEPT !.ctes[1].body.distinct = FALSE])
    /\ result # None
(***************************************************************************)
(* C5.  Every column reference under a qualify_clause, one inside a        *)
(* window's PARTITION BY included, that resolves against the FROM clause   *)
(* of the enclosing SELECT to a CTE is marked used in that CTE, and that   *)
(* column is not reported, even when the SELECT list never mentions it.    *)
(***************************************************************************)
\* the column references under a qualify_clause
QualifyRefs(t) ==
    {r \in 1..Len(t) : /\ IsColumnRef(t, r)
                       /\ \E q \in 1..Len(t) : t[q].kind = "qualify_clause"
                                               /\ IsAncestor(t, q, r)}

\* the table reference r resolves to, against the FROM of its select
ResolvedTable(t, r) ==
    With(extract_table(t, find_from_clause(t, find_parent_select(t, r)[1])), LAMBDA ft :
         find_original_table(t[r].text, ft.tables, ft.alias_map, context.cte_columns))

\* reference r resolves to a registered CTE that has the column it names
ResolvesToCte(t, r) ==
    /\ ResolvedTable(t, r) \in DOMAIN context.graph
    /\ \E a \in ColumnsOf(ResolvedTable(t, r)) :
          extract_column_name(a.column_name) = extract_column_name(t[r].text)

QualifyMarksColumns ==
    Done => \A r \in QualifyRefs(tree) :
               ResolvesToCte(tree, r)
                  => /\ extract_column_name(tree[r].text)
                            \in context.graph[ResolvedTable(tree, r)].used_column_names
                     /\ \A a \in ColumnsOf(ResolvedTable(tree, r)) :
                           extract_column_name(a.column_name) = extract_column_name(tree[r].text)
                              => ~Reported(a)

\* the select list over reference r names no column the way r does
SelectListSilent(t, r) ==
    \A i \in 1..Len(t) :
        (/\ IsColumnRef(t, i)
         /\ find_parent_select(t, i) = find_parent_select(t, r)
         /\ \E l \in 1..Len(t) : t[l].kind = "select_list" /\ IsAncestor(t, l, i))
            => extract_column_name(t[i].text) # extract_column_name(t[r].text)

QualifyMarksColumnsChecked ==
    /\ Done
    /\ \E r \in QualifyRefs(tree) :
          /\ ResolvesToCte(tree, r)
          /\ tree[tree[r].parent].kind = "over_clause"
          /\ SelectListSilent(tree, r)
(***************************************************************************)
(* C6.  check returns None exactly when the unused-column list of the      *)
(* context is empty; otherwise Some of a list that is never empty and      *)
(* holds one Diagnostic per unused column entry of a registered CTE, in    *)
(* the same order, each with that column's 1-based row and column (both at *)
(* least 1) and the message "Unused column: <column_name>".  Columns of    *)
(* physical tables or of the final query produce no diagnostic.            *)
(***************************************************************************)
\* column entry col of CTE name is used, by the rule of section 5
UsedIn(name, col) ==
    \E u \in context.graph[name].used_column_names :
        \/ u = col.column_name
        \/ extract_column_name(u) = extract_column_name(col.column_name)

\* the unused column entries of the registered CTEs, by CTE and index
UnusedEntries ==
    UNION { {<<name, i>> : i \in {k \in DOMAIN context.graph[name].columns :
                                     ~UsedIn(name, context.graph[name].columns[k])}} :
            name \in DOMAIN context.graph }

\* the 1-based position (row, col) is that of a select-list item of a CTE
ItemOfCteAt(t, row, col) ==
    \E n \in 1..Len(t) : /\ t[n].kind \in {"select_expression", "select_all"}
                         /\ inside_cte(t, n)
                         /\ t[n].row + 1 = row
                         /\ t[n].col + 1 = col

OutputContract ==
    Done =>
      /\ (result = None) <=> (unused = <<>>)
      /\ Len(Diagnostics) = Len(unused)
      /\ Len(unused) = Cardinality(UnusedEntries)
      /\ \A e \in UnusedEntries :
            \E k \in DOMAIN unused : unused[k] = context.graph[e[1]].columns[e[2]]
      /\ result # None => Len(result[1]) >= 1
      /\ \A k \in DOMAIN Diagnostics :
            /\ Diagnostics[k].row = unused[k].row
            /\ Diagnostics[k].col = unused[k].col
            /\ Diagnostics[k].row >= 1
            /\ Diagnostics[k].col >= 1
            /\ Diagnostics[k].message = <<"Unused column: ">> \o unused[k].column_name
            /\ ItemOfCteAt(tree, Diagnostics[k].row, Diagnostics[k].col)

\* a run that returns diagnostics although a physical table is read and
\* the final query has columns of its own
OutputContractChecked ==
    /\ Done
    /\ Len(Diagnostics) >= 2
    /\ TableMentions(tree, Physical) # {}
    /\ \E n \in 1..Len(tree) : tree[n].kind = "select_expression" /\ ~inside_cte(tree, n)

(***************************************************************************)
(* C7.  A column c of a registered CTE T is in the unused list if and only *)
(* if T's used set holds no entry u with u = c.column_name or              *)
(* base(u) = base(c.column_name); what another CTE's used set holds has no *)
(* effect on T's columns.                                                  *)
(***************************************************************************)
UnusedIffUnmarked ==
    phase = "collected" =>
        \A name \in DOMAIN context.graph : \A c \in ColumnsOf(name) :
            (\E k \in DOMAIN unused : unused[k] = c) <=> ~UsedIn(name, c)

\* a column that only a base-name match keeps out of the list, next to a
\* column that is in the list although another CTE's used set holds its name
UnusedIffUnmarkedChecked ==
    /\ phase = "collected"
    /\ \E name \in DOMAIN context.graph : \E other \in DOMAIN context.graph \ {name} :
          /\ \E c \in ColumnsOf(name) :
                /\ c.column_name \notin context.graph[name].used_column_names
                /\ UsedIn(name, c)
                /\ ~\E k \in DOMAIN unused : unused[k] = c
          /\ \E c \in ColumnsOf(name) :
                /\ c.column_name \in context.graph[other].used_column_names
                /\ \E k \in DOMAIN unused : unused[k] = c

(***************************************************************************)
(* C8.  The diagnostics check returns are sorted ascending by (row, col),  *)
(* row first: for positions i < j, (row_i, col_i) <= (row_j, col_j),       *)
(* whatever order the map yields the CTEs in.                              *)
(***************************************************************************)
DiagnosticsSorted ==
    Done => \A i, j \in DOMAIN Diagnostics :
               i < j => \/ Diagnostics[i].row < Diagnostics[j].row
                        \/ /\ Diagnostics[i].row = Diagnostics[j].row
                           /\ Diagnostics[i].col <= Diagnostics[j].col

\* diagnostics of two CTEs, the later line with the smaller column
DiagnosticsSortedChecked ==
    /\ Done
    /\ Cardinality(DOMAIN context.graph) >= 2
    /\ \E i, j \in DOMAIN Diagnostics :
          /\ i < j
          /\ Diagnostics[i].row < Diagnostics[j].row
          /\ Diagnostics[i].col > Diagnostics[j].col

(***************************************************************************)
(* C9.  Determinism: a second run of check on the same tree returns the    *)
(* same diagnostics in the same order as the first; the result depends     *)
(* neither on what the first call left behind nor on the order in which    *)
(* the map yields the CTEs.                                                *)
(***************************************************************************)
SecondRunAgrees == (Done /\ run = 2) => result = previous[1]

SecondRunAgreesChecked ==
    /\ Done
    /\ run = 2
    /\ Cardinality(DOMAIN context.graph) >= 2
    /\ Len(Diagnostics) >= 2
    /\ result = previous[1]

(***************************************************************************)
(* C10.  For a tree without any cte node check returns None: no CTE is     *)
(* registered, so whatever the visitors try to mark, the unused list is    *)
(* empty.                                                                  *)
(***************************************************************************)
HasCte(t) == \E n \in 1..Len(t) : t[n].kind = "cte"

NoCteNoDiagnostics == (Done /\ ~HasCte(tree)) => (result = None /\ unused = <<>>)

\* a finished run on such a tree whose WHERE clause gave the visitors a mark
NoCteNoDiagnosticsChecked ==
    /\ Done
    /\ ~HasCte(tree)
    /\ \E n \in 1..Len(tree) : tree[n].kind = "where_clause"
    /\ DOMAIN context.graph = {}

WorklistNames ==
    {queue[i][2] : i \in DOMAIN queue}
      \cup UNION { UNION { {c.column_name} \cup Range(c.original_column_name) :
                           c \in Range(context.cte_columns[name]) } :
                   name \in DOMAIN context.cte_columns }

\* the (CTE, name) pairs the worklist has not marked yet
UnmarkedPairs ==
    {p \in (DOMAIN context.graph) \X WorklistNames : ~is_column_used(context.graph, p[1], p[2])}

\* one more than the pairs a single turn can push
PushBound ==
    1 + Cardinality(UNION { DOMAIN context.cte_columns[name] :
                            name \in DOMAIN context.cte_columns })

WorklistMeasure == Cardinality(UnmarkedPairs) * PushBound + Len(queue)

WorklistTerminates ==
    [][WorklistStep =>
          /\ WorklistMeasure' < WorklistMeasure
          /\ WorklistMeasure' >= 0
          /\ IF is_column_used(context.graph, Head(queue)[1], Head(queue)[2])
             THEN context' = context /\ queue' = Tail(queue)
             ELSE /\ Head(queue)[1] \in DOMAIN context.graph
                      => is_column_used(context'.graph, Head(queue)[1], Head(queue)[2])
                  /\ \A name \in DOMAIN context.graph :
                        context.graph[name].used_column_names
                            \subseteq context'.graph[name].used_column_names
                  /\ Len(queue') < Len(queue) + PushBound]_vars

\* CTE from has a column whose origin is CTE to
OriginEdge(from, to) ==
    /\ from \in DOMAIN context.cte_columns
    /\ to \in DOMAIN context.cte_columns
    /\ \E c \in Range(context.cte_columns[from]) : c.table_name = Some(to)

\* the worklist meets, in a context where two CTEs name each other as
\* origin, a pair it has marked before
WorklistTerminatesChecked ==
    /\ phase = "worklist"
    /\ queue # <<>>
    /\ is_column_used(context.graph, Head(queue)[1], Head(queue)[2])
    /\ \E s, t \in DOMAIN context.cte_columns :
          s # t /\ OriginEdge(s, t) /\ OriginEdge(t, s)

(***************************************************************************)
(* C13.  On a where_clause, join_condition or group_by_clause node the     *)
(* WHERE marker marks, for every column reference r beneath the node, the  *)
(* pair (find_original_table(r, tables and aliases of the enclosing        *)
(* SELECT's FROM clause, known CTEs), base name of r) when that table is   *)
(* not empty, and nothing else, for qualified and unqualified references   *)
(* alike.  The rule breaks this on                                         *)
(*   WITH a AS (SELECT c1, c2 FROM t) SELECT c1 FROM a WHERE z.c2          *)
(* where find_original_table gives a for z.c2 and the marker marks nothing *)
(* in a.                                                                   *)
(***************************************************************************)
ConditionKinds == {"where_clause", "join_condition", "group_by_clause"}

\* the column references beneath node n
RefsUnder(t, n) == {r \in 1..Len(t) : IsColumnRef(t, r) /\ IsAncestor(t, n, r)}

\* the names the resolution of section 4.1 has the references beneath node
\* n mark in CTE name
ResolvedNames(t, n, name) ==
    With(extract_tables_from_parent(t, n), LAMBDA ft :
         {extract_column_name(t[r].text) :
             r \in {x \in RefsUnder(t, n) :
                       find_original_table(t[x].text, ft.tables, ft.alias_map,
                                           context.cte_columns) = name}})

WhereMarksAsResolved ==
    [][(phase = "visit" /\ pc <= Len(tree) /\ tree[pc].kind \in ConditionKinds /\ pc' = pc + 1)
          => \A name \in DOMAIN context.graph :
                context'.graph[name].used_column_names
                    = context.graph[name].used_column_names
                        \cup ResolvedNames(tree, pc, name)]_vars

(***************************************************************************)
(* C14.  On a select_list node the final-SELECT-star marker marks every    *)
(* registered column of every table listed in the FROM clause of that      *)
(* SELECT if and only if the list holds a star and no ancestor of the node *)
(* is a cte; on a list without a star, or inside a CTE, the context stays  *)
(* as it was.                                                              *)
(***************************************************************************)
\* select_list node l holds a star
HoldsStar(t, l) == \E c \in 1..Len(t) : t[c].parent = l /\ t[c].kind = "select_all"

\* the tables the FROM clause of the select of list l names
FromTablesOf(t, l) ==
    {t[i].text : i \in {x \in 1..Len(t) :
                           /\ t[x].kind = "identifier"
                           /\ t[x].parent # 0
                           /\ t[t[x].parent].kind = "from_item"
                           /\ \E f \in 1..Len(t) : /\ t[f].kind = "from_clause"
                                                   /\ t[f].parent = t[l].parent
                                                   /\ IsAncestor(t, f, x)}}

\* node n lies inside a cte node
UnderCte(t, n) == \E a \in 1..Len(t) : t[a].kind = "cte" /\ IsAncestor(t, a, n)

\* the context with every registered column of the tables in names marked
AllColumnsMarked(ctx, names) ==
    [ctx EXCEPT !.graph =
        [name \in DOMAIN ctx.graph |->
            IF name \in names
            THEN [ctx.graph[name] EXCEPT !.used_column_names =
                     @ \cup {c.column_name : c \in Range(ctx.cte_columns[name])}]
            ELSE ctx.graph[name]]]

\* the context with the same CTEs and no mark at all
NothingMarked(ctx) ==
    [ctx EXCEPT !.graph =
        [name \in DOMAIN ctx.graph |-> [ctx.graph[name] EXCEPT !.used_column_names = {}]]]

\* what the marker is to make of context ctx on select_list node l
StarMarked(t, l, ctx) ==
    IF HoldsStar(t, l) /\ ~UnderCte(t, l)
    THEN AllColumnsMarked(ctx, FromTablesOf(t, l))
    ELSE ctx

\* the turn of the traversal on the node does this to the context, and the
\* marker alone does it to the same context stripped of its marks
StarMarkerContract ==
    [][(phase = "visit" /\ pc <= Len(tree) /\ tree[pc].kind = "select_list" /\ pc' = pc + 1)
          => /\ context' = StarMarked(tree, pc, context)
             /\ SelectStarVisitor_visit(tree, pc, NothingMarked(context))
                   = StarMarked(tree, pc, NothingMarked(context))]_vars

\* a star of the final SELECT has been visited and the columns of the CTE it
\* reads are all marked, while a CTE read through a star inside a CTE body
\* still has a column whose name is not marked
StarMarkerContractChecked ==
    /\ phase = "visit"
    /\ pc > 1
    /\ tree[pc - 1].kind = "select_list"
    /\ HoldsStar(tree, pc - 1)
    /\ ~UnderCte(tree, pc - 1)
    /\ \E name \in FromTablesOf(tree, pc - 1) \cap DOMAIN context.graph :
          /\ Len(context.cte_columns[name]) >= 2
          /\ \A c \in Range(context.cte_columns[name]) :
                c.column_name \in context.graph[name].used_column_names
    /\ \E l \in 1..Len(tree) :
          /\ tree[l].kind = "select_list"
          /\ HoldsStar(tree, l)
          /\ UnderCte(tree, l)
          /\ \E name \in FromTablesOf(tree, l) \cap DOMAIN context.graph :
                \E c \in Range(context.cte_columns[name]) :
                   c.column_name \notin context.graph[name].used_column_names

(***************************************************************************)
(* C15.  When the collector registers a CTE whose SELECT list holds a      *)
(* star, the star stands, at its place among the other items, for one      *)
(* column per registered column of each table of the CTE's FROM clause, in *)
(* FROM order and then in the order of the source's columns; a table       *)
(* without a registered schema gives none.  An inserted column keeps the   *)
(* source column's name and original name, has the source table as its     *)
(* table_name and the star's 1-based position as (row, col).  A CTE        *)
(* defined as SELECT * FROM earlier has the earlier CTE's column names, in *)
(* the same order.                                                         *)
(***************************************************************************)
\* the select_list that defines the CTE of cte node n, as a set
DefiningLists(t, n) ==
    {l \in 1..Len(t) : /\ t[l].kind = "select_list"
                       /\ t[l].parent # 0
                       /\ t[t[l].parent].kind = "select"
                       /\ \/ t[t[l].parent].parent = n
                          \/ /\ t[t[l].parent].parent # 0
                             /\ t[t[t[l].parent].parent].kind = "query_expr"
                             /\ t[t[t[l].parent].parent].parent = n}

\* the tables the FROM clause next to list l names, in the order it names them
FromTableSeq(t, l) ==
    LET names(i) == /\ t[i].kind = "identifier"
                    /\ t[i].parent # 0
                    /\ t[t[i].parent].kind = "from_item"
                    /\ \E f \in 1..Len(t) : /\ t[f].kind = "from_clause"
                                            /\ t[f].parent = t[l].parent
                                            /\ IsAncestor(t, f, i)
        found == SelectIdx(t, names)
    IN [k \in 1..Len(found) |-> t[found[k]].text]

\* the columns the star at node star stands for, over the schemas known
StarColumns(t, star, from, known) ==
    Flatten([k \in 1..Len(from) |->
                IF from[k] \in DOMAIN known
                THEN [j \in 1..Len(known[from[k]]) |->
                         [table_name |-> Some(from[k]),
                          column_name |-> known[from[k]][j].column_name,
                          original_column_name |-> known[from[k]][j].original_column_name,
                          row |-> t[star].row + 1,
                          col |-> t[star].col + 1]]
                ELSE <<>>])

\* the columns registered at the 1-based position of node item
ColumnsAt(t, item, columns) ==
    SelectSeq(columns, LAMBDA c : c.row = t[item].row + 1 /\ c.col = t[item].col + 1)

\* the list registered for select_list l: each item's one column where the
\* item stands, each star's columns where the star stands
RegisteredAsListed(t, l, columns, known) ==
    With(SelectSeq(children(t, l),
                   LAMBDA c : t[c].kind \in {"select_expression", "select_all"}),
         LAMBDA items :
            /\ columns = Flatten([i \in 1..Len(items) |->
                                     IF t[items[i]].kind = "select_all"
                                     THEN StarColumns(t, items[i], FromTableSeq(t, l), known)
                                     ELSE ColumnsAt(t, items[i], columns)])
            /\ \A i \in 1..Len(items) :
                  t[items[i]].kind = "select_expression"
                      => Len(ColumnsAt(t, items[i], columns)) = 1)

StarExpansion ==
    [][(phase = "visit" /\ pc <= Len(tree) /\ tree[pc].kind = "cte" /\ pc' = pc + 1)
          => \A l \in DefiningLists(tree, pc) :
                /\ get_cte_name(tree, pc)[1] \in DOMAIN context'.cte_columns
                /\ RegisteredAsListed(tree, l, context'.cte_columns[get_cte_name(tree, pc)[1]],
                                      context.cte_columns)]_vars

\* a registered CTE whose star, between two items of its own, stands for the
\* columns of two CTEs, one of them a renamed column
StarExpansionChecked ==
    \E name \in DOMAIN context.cte_columns :
        LET columns == context.cte_columns[name]
        IN /\ Len(columns) >= 6
           /\ columns[1].col < columns[2].col
           /\ columns[2].col = columns[Len(columns) - 1].col
           /\ columns[Len(columns) - 1].col < columns[Len(columns)].col
           /\ columns[2].table_name # columns[Len(columns) - 1].table_name
           /\ \A k \in 2..(Len(columns) - 1) :
                 columns[k].table_name[1] \in DOMAIN context.cte_columns \ {name}
           /\ \E k \in 2..(Len(columns) - 1) : columns[k].original_column_name # None

(***************************************************************************)
(* C16.  Every item of a CTE's SELECT list that is no star gives exactly   *)
(* one column, the columns standing in list order.  The column's name is   *)
(* the alias when the item has one and otherwise the last dot-separated    *)
(* segment of the item's text; its original_column_name is the base name   *)
(* of the aliased expression whenever there is an alias, and is set        *)
(* whenever the name differs from the item's text (t.col gives col).       *)
(***************************************************************************)
\* what follows the last dot of s, all of s when it has none
LastSegment(s) ==
    LET dots == {i \in 1..Len(s) : s[i] = Dot}
    IN IF dots = {} THEN s
       ELSE SubSeq(s, (CHOOSE i \in dots : \A j \in dots : j <= i) + 1, Len(s))

\* the as_alias children of item e
AliasesOf(t, e) == {a \in 1..Len(t) : t[a].parent = e /\ t[a].kind = "as_alias"}

\* the name an as_alias node gives: the text of its identifier
AliasText(t, a) ==
    t[CHOOSE i \in 1..Len(t) : t[i].parent = a /\ t[i].kind = "identifier"].text

\* the expression item e gives an alias to: its first named child
AliasedText(t, e) ==
    t[CHOOSE i \in 1..Len(t) :
          /\ t[i].parent = e /\ t[i].named
          /\ \A j \in 1..(i - 1) : ~(t[j].parent = e /\ t[j].named)].text

\* column c is the one the item at node e is to give
ColumnOfItem(t, e, c) ==
    IF AliasesOf(t, e) = {}
    THEN /\ c.column_name = LastSegment(t[e].text)
         /\ c.column_name # t[e].text => c.original_column_name # None
    ELSE /\ \E a \in AliasesOf(t, e) : c.column_name = AliasText(t, a)
         /\ c.original_column_name = Some(LastSegment(AliasedText(t, e)))

ItemColumns ==
    [][(phase = "visit" /\ pc <= Len(tree) /\ tree[pc].kind = "cte" /\ pc' = pc + 1)
          => \A l \in DefiningLists(tree, pc) :
                LET columns == context'.cte_columns[get_cte_name(tree, pc)[1]]
                IN /\ \A e \in 1..Len(tree) :
                         (tree[e].parent = l /\ tree[e].kind = "select_expression")
                            => /\ Len(ColumnsAt(tree, e, columns)) = 1
                               /\ ColumnOfItem(tree, e, ColumnsAt(tree, e, columns)[1])
                   /\ \A i, j \in DOMAIN columns :
                         i < j => ~ColumnInfo_lt(columns[j], columns[i])]_vars

\* a registered CTE with a qualified item under an alias next to a qualified
\* item without one, and a CTE with a plain item that has no original name
ItemColumnsChecked ==
    /\ \E name \in DOMAIN context.cte_columns :
          \E i, j \in DOMAIN context.cte_columns[name] :
             LET ci == context.cte_columns[name][i]
                 cj == context.cte_columns[name][j]
             IN /\ ci.column_name = ColC1 /\ ci.original_column_name = Some(ColC1)
                /\ cj.column_name = ColX /\ cj.original_column_name = Some(ColC2)
                /\ ci.col < cj.col
    /\ \E name \in DOMAIN context.cte_columns :
          \E c \in Range(context.cte_columns[name]) :
             c.column_name = ColC2 /\ c.original_column_name = None

(***************************************************************************)
(* C17.  The PIVOT marker marks used every column that a pivot_operator    *)
(* references in its aggregate expressions or as its FOR target and that   *)
(* resolves to a CTE through the FROM clause around the operator; the      *)
(* columns of that CTE that nothing references stay unmarked and are       *)
(* reported.                                                               *)
(***************************************************************************)
\* the from_clause nodes around node n, the nearest last
FromClausesAround(t, n) ==
    SelectIdx(t, LAMBDA f : t[f].kind = "from_clause" /\ IsAncestor(t, f, n))

\* the names the references beneath pivot_operator p mark in CTE name
PivotNames(t, p, name) ==
    With(FromClausesAround(t, p), LAMBDA around :
    With(extract_table(t, IF around = <<>> THEN None ELSE Some(around[Len(around)])),
         LAMBDA ft :
            {extract_column_name(t[r].text) :
                r \in {x \in RefsUnder(t, p) :
                          find_original_table(t[x].text, ft.tables, ft.alias_map,
                                              context.cte_columns) = name}}))

\* the CTEs the FROM clause around pivot_operator p names
PivotTables(t, p) ==
    {name \in DOMAIN context.cte_columns :
        \E i \in 1..Len(t) : /\ t[i].kind = "identifier"
                             /\ t[i].text = name
                             /\ t[i].parent # 0
                             /\ t[t[i].parent].kind = "from_item"
                             /\ IsAncestor(t, t[i].parent, p)}

\* no node outside the body of CTE name reads a column called x or a star
ReferencedNowhere(t, name, x) ==
    \A r \in 1..Len(t) :
        (\/ IsColumnRef(t, r) /\ extract_column_name(t[r].text) = x
         \/ t[r].kind = "select_all")
            => \E c \in 1..Len(t) : /\ t[c].kind = "cte"
                                    /\ get_cte_name(t, c) = Some(name)
                                    /\ IsAncestor(t, c, r)

GraphWriteOnce ==
    [][\A name \in DOMAIN context.graph :
          /\ name \in DOMAIN context'.graph
          /\ name \in DOMAIN context'.cte_columns
          /\ context'.graph[name].columns = context.graph[name].columns
          /\ context'.cte_columns[name] = context.cte_columns[name]
          /\ context.graph[name].used_column_names
                \subseteq context'.graph[name].used_column_names]_vars

(***************************************************************************)
(* C19.  When the worklist of the SELECT-list marker for a final SELECT    *)
(* becomes empty, every (CTE, column) pair that is reachable from the      *)
(* final roots is marked used, where a pair (T, c) leads to the pair       *)
(* (S, original-or-current name) of every column of T whose base name      *)
(* matches c and whose origin S is a registered CTE -- for chains of any   *)
(* length and whatever marks other visitors placed before the worklist     *)
(* started.                                                                *)
(***************************************************************************)
\* the pairs one step away from pair (T, c)
StepsFrom(ctx, pair) ==
    IF pair[1] \notin DOMAIN ctx.cte_columns THEN {}
    ELSE {<<col.table_name[1],
            IF col.original_column_name # None
            THEN col.original_column_name[1] ELSE col.column_name>> :
             col \in {c \in Range(ctx.cte_columns[pair[1]]) :
                         /\ extract_column_name(c.column_name) = extract_column_name(pair[2])
                         /\ c.table_name # None
                         /\ c.table_name[1] \in DOMAIN ctx.cte_columns}}

\* the pairs reachable from the pairs of a set
RECURSIVE ReachablePairs(_, _)
ReachablePairs(ctx, pairs) ==
    With(pairs \cup UNION {StepsFrom(ctx, p) : p \in pairs}, LAMBDA further :
         IF further = pairs THEN pairs ELSE ReachablePairs(ctx, further))

\* the roots of the final select at node pc: the pairs first put in the queue
FinalRoots ==
    Range(extract_final_select_columns(tree, select_list_of(tree, pc)[1], context))

WorklistMarksReachable ==
    (phase = "worklist" /\ queue = <<>>)
       => \A pair \in ReachablePairs(context, FinalRoots) :
             pair[1] \in DOMAIN context.graph
                => pair[2] \in context.graph[pair[1]].used_column_names

(***************************************************************************)
(* C20.  Schema before consumer: in the one pre-order traversal, whenever  *)
(* a visitor resolves the references of a consumer (the SELECT list or     *)
(* star of a CTE's body, a clause, or the final query) against a CTE named *)
(* in its FROM clause, that CTE is registered already -- for every CTE     *)
(* defined textually before the consumer, those nested inside the body of  *)
(* another CTE included.                                                   *)
(***************************************************************************)
\* the kinds of node on which a visitor resolves references
ConsumerKinds ==
    {"cte", "select", "select_list", "qualify_clause", "pivot_operator"} \cup ConditionKinds

\* the nodes whose references the visitors resolve on node n: the defining
\* SELECT list for a cte node, the node itself otherwise
ConsumersAt(t, n) == IF t[n].kind = "cte" THEN DefiningLists(t, n) ELSE {n}

\* the select a consumer belongs to
SelectOf(t, n) ==
    IF t[n].kind = "select" THEN {n}
    ELSE {s \in 1..Len(t) :
             /\ t[s].kind = "select" /\ IsAncestor(t, s, n)
             /\ \A o \in 1..Len(t) :
                   (t[o].kind = "select" /\ IsAncestor(t, o, n)) => o <= s}

\* the tables the FROM clause of select s names
FromNamesOf(t, s) ==
    {t[x].text : x \in {i \in 1..Len(t) :
                           /\ t[i].kind = "identifier"
                           /\ t[i].parent # 0
                           /\ t[t[i].parent].kind = "from_item"
                           /\ \E f \in 1..Len(t) : /\ t[f].kind = "from_clause"
                                                   /\ t[f].parent = s
                                                   /\ IsAncestor(t, f, i)}}

\* cte node k is defined, from its first token to its last, before node n
DefinedBefore(t, k, n) ==
    t[k].kind = "cte" /\ k < n /\ ~IsAncestor(t, k, n)

SchemaBeforeConsumer ==
    (phase = "visit" /\ pc <= Len(tree) /\ tree[pc].kind \in ConsumerKinds)
       => \A n \in ConsumersAt(tree, pc) :
             \A s \in SelectOf(tree, n) :
                \A k \in 1..Len(tree) :
                   (/\ DefinedBefore(tree, k, n)
                    /\ get_cte_name(tree, k) # None
                    /\ get_cte_name(tree, k)[1] \in FromNamesOf(tree, s))
                      => get_cte_name(tree, k)[1] \in DOMAIN context.cte_columns

(***************************************************************************)
(* C21.  For an unqualified reference find_original_table scans the        *)
(* in-scope tables in FROM order and returns the first table that is a     *)
(* known CTE with a column of the reference's base name, or that is no     *)
(* known CTE at all (returned at once, even if a later CTE of the list has *)
(* the column); it returns the empty string only when every listed table   *)
(* is a known CTE without that column, or the list is empty.               *)
(***************************************************************************)
\* find_original_table has returned from the call held in queue
Resolved == phase = "returned" /\ queue[1].fn = "find_original_table"

\* table number i of the call's list ends the scan for the call's reference
EndsScan(i) ==
    LET table == queue[1].tables[i]
    IN \/ table \notin DOMAIN context.cte_columns
       \/ \E c \in Range(context.cte_columns[table]) :
             extract_column_name(c.column_name) = extract_column_name(queue[1].column)

UnqualifiedResolution ==
    (Resolved /\ ~contains_dot(queue[1].column))
       => LET ends == {i \in 1..Len(queue[1].tables) : EndsScan(i)}
          IN IF ends = {} THEN result = Some(<<>>)
             ELSE result = Some(queue[1].tables[CHOOSE i \in ends : \A j \in ends : i <= j])

\* a physical table listed first wins over a CTE that has the column, and of
\* two CTEs that have it the one listed first wins
UnqualifiedResolutionChecked ==
    /\ Resolved
    /\ queue[1].column = ColC2
    /\ Len(queue[1].tables) = 2
    /\ queue[1].tables[1] # queue[1].tables[2]
    /\ EndsScan(1) /\ EndsScan(2)
    /\ queue[1].tables[2] \in DOMAIN context.cte_columns
    /\ result = Some(queue[1].tables[1])

(***************************************************************************)
(* C22.  For a qualified reference p.c find_original_table returns the     *)
(* alias-resolved prefix when it names an in-scope table or a known CTE;   *)
(* the scan by name is for unqualified references only, so a qualified     *)
(* reference whose resolved prefix is neither in scope nor a known CTE     *)
(* resolves to the empty string and is never given to a table it did not   *)
(* name.                                                                   *)
(***************************************************************************)
\* the prefix of the call's reference, taken through the call's alias map
ResolvedPrefix ==
    LET prefix == SubSeq(queue[1].column, 1,
                         (CHOOSE i \in 1..Len(queue[1].column) :
                             /\ queue[1].column[i] = Dot
                             /\ \A j \in 1..(i - 1) : queue[1].column[j] # Dot) - 1)
    IN IF prefix \in DOMAIN queue[1].alias_map THEN queue[1].alias_map[prefix] ELSE prefix

QualifiedResolution ==
    (Resolved /\ contains_dot(queue[1].column))
       => IF \/ ResolvedPrefix \in Range(queue[1].tables)
             \/ ResolvedPrefix \in DOMAIN context.cte_columns
          THEN result = Some(ResolvedPrefix)
          ELSE result = Some(<<>>)

(***************************************************************************)
(* C23.  No usage-marking visitor (SELECT list, WHERE / JOIN / GROUP BY,   *)
(* QUALIFY, PIVOT) marks a column on account of an identifier that is the  *)
(* callee of a function_call: for a call f(x) only x can produce a mark,   *)
(* even when a CTE in scope has a column named f.  Stated on a whole run:  *)
(* the marks are those of the run on the tree whose callee identifiers     *)
(* carry a text that names no column.                                      *)
(***************************************************************************)
\* the tree with the text of every callee identifier replaced
CalleesHidden(t) ==
    [i \in 1..Len(t) |->
        IF is_function_name(t, i) THEN [t[i] EXCEPT !.text = <<"(callee)">>] ELSE t[i]]

CalleesMarkNothing ==
    Done => context.graph = traverse_from(CalleesHidden(tree), 1, AnalysisContext_new).graph

(***************************************************************************)
(* C24.  The context's index of CTE columns and the dependency graph stay  *)
(* in sync: after every operation of a run of check the names in           *)
(* cte_columns are the names in the graph and each name has the same       *)
(* column list in both; a CTE that is newly registered starts with an      *)
(* empty used set.                                                         *)
(***************************************************************************)
IndexInSync ==
    /\ [](/\ DOMAIN context.cte_columns = DOMAIN context.graph
          /\ \A name \in DOMAIN context.graph :
                context.graph[name].columns = context.cte_columns[name])
    /\ [][\A name \in DOMAIN context'.graph :
             name \notin DOMAIN context.graph
                => context'.graph[name].used_column_names = {}]_vars

\* two CTEs are registered, columns of both and marks on one of them
IndexInSyncChecked ==
    /\ \E s, t \in DOMAIN context.graph :
          /\ s # t
          /\ context.cte_columns[s] # <<>> /\ context.cte_columns[t] # <<>>
          /\ context.graph[s].used_column_names # {}
          /\ context.graph[t].used_column_names = {}
    /\ DOMAIN context.cte_columns = DOMAIN context.graph

(***************************************************************************)
(* C25.  extract_table returns the base table or CTE names of the FROM     *)
(* clause's own table-reference items, each listed once, in FROM order     *)
(* (items under join operators once, not listed again), and a map from     *)
(* each alias to the table it follows; tables that occur only inside a     *)
(* nested subquery of the FROM clause are no part of the list of the       *)
(* outer scope.                                                            *)
(***************************************************************************)
\* the from_items of from_clause f that name a table and lie in no select
\* nested in f
OwnItems(t, f) ==
    SelectIdx(t, LAMBDA n :
        /\ t[n].kind = "from_item"
        /\ IsAncestor(t, f, n)
        /\ \E c \in 1..Len(t) :
              /\ t[c].parent = n /\ t[c].kind = "identifier"
              /\ \A d \in 1..(c - 1) : ~(t[d].parent = n /\ t[d].named)
        /\ ~\E s \in 1..Len(t) :
              t[s].kind = "select" /\ IsAncestor(t, f, s) /\ IsAncestor(t, s, n))

\* the table from_item n names
TableOfItem(t, n) ==
    t[CHOOSE c \in 1..Len(t) : t[c].parent = n /\ t[c].kind = "identifier"].text

\* the alias of from_item n, as a set
AliasOfItem(t, n) ==
    {t[i].text : i \in {x \in 1..Len(t) : /\ t[x].kind = "identifier"
                                          /\ t[x].parent # 0
                                          /\ t[t[x].parent].kind = "as_alias"
                                          /\ t[t[x].parent].parent = n}}

TablesOfOwnScope ==
    \A f \in 1..Len(tree) :
        tree[f].kind = "from_clause"
           => LET own == OwnItems(tree, f)
                  got == extract_table(tree, Some(f))
              IN /\ got.tables = [i \in 1..Len(own) |-> TableOfItem(tree, own[i])]
                 /\ DOMAIN got.alias_map
                       = UNION {AliasOfItem(tree, own[i]) : i \in 1..Len(own)}
                 /\ \A i \in 1..Len(own) :
                       \A alias \in AliasOfItem(tree, own[i]) :
                          got.alias_map[alias] = TableOfItem(tree, own[i])

(***************************************************************************)
(* C26.  Marking is idempotent: marking a (table, column) pair that is     *)
(* marked already leaves the whole context as it is, marking a pair twice  *)
(* gives the context of marking it once, and the marks of two different    *)
(* pairs commute.                                                          *)
(***************************************************************************)
\* the pairs that are marked: those of the registered tables and one of a
\* table that is never registered
MarkPairs == (ApiTables \cup {Str("other")}) \X ApiNames

MarkingIdempotent ==
    \A p \in MarkPairs :
        /\ is_column_used(context.graph, p[1], p[2])
              => mark_used(context, p[1], p[2]) = context
        /\ mark_used(mark_used(context, p[1], p[2]), p[1], p[2])
              = mark_used(context, p[1], p[2])
        /\ \A q \in MarkPairs :
              mark_used(mark_used(context, p[1], p[2]), q[1], q[2])
                 = mark_used(mark_used(context, q[1], q[2]), p[1], p[2])

\* both tables are registered, one has two names marked and the other none
MarkingIdempotentChecked ==
    /\ phase = "api"
    /\ DOMAIN context.graph = ApiTables
    /\ \E s, t \in ApiTables :
          /\ Cardinality(context.graph[s].used_column_names) >= 2
          /\ context.graph[t].used_column_names = {}
          /\ \E n \in ApiNames : is_column_used(context.graph, s, n)
                                   /\ mark_used(context, s, n) = context

(***************************************************************************)
(* C27.  The equality of ColumnInfo ignores original_column_name: two      *)
(* values with the same table_name, column_name, row and col and different *)
(* original_column_name compare equal, in agreement with the ordering by   *)
(* (row, col): values that are equal also compare as Equal.                *)
(***************************************************************************)
\* the comparison of the two values held in queue has returned
Compared == phase = "returned" /\ queue[1].fn = "eq"

EqualityIgnoresOriginal ==
    Compared
       => /\ (/\ queue[1].a.table_name = queue[1].b.table_name
              /\ queue[1].a.column_name = queue[1].b.column_name
              /\ queue[1].a.row = queue[1].b.row
              /\ queue[1].a.col = queue[1].b.col) => result[1].eq
          /\ result[1].eq => result[1].cmp = "Equal"

(***************************************************************************)
(* C28.  At the end of check the used marks are closed under provenance:   *)
(* whenever a pair (T, c) is marked for a registered CTE T, by whichever   *)
(* visitor, and T has a column whose base name matches c and whose origin  *)
(* table is a registered CTE S, the used set of S has an entry that        *)
(* matches the column's original-or-current name; no upstream column that  *)
(* feeds a used column is reported unused.                                 *)
(***************************************************************************)
\* the used set of CTE name has an entry with the base name of column
HasMatchingMark(name, column) ==
    \E u \in context.graph[name].used_column_names :
        extract_column_name(u) = extract_column_name(column)

MarksClosedUnderProvenance ==
    Done => \A T \in DOMAIN context.graph :
               \A c \in context.graph[T].used_column_names :
                  \A col \in Range(context.graph[T].columns) :
                     (/\ extract_column_name(col.column_name) = extract_column_name(c)
                      /\ col.table_name # None
                      /\ col.table_name[1] \in DOMAIN context.graph)
                        => HasMatchingMark(col.table_name[1],
                                           IF col.original_column_name # None
                                           THEN col.original_column_name[1]
                                           ELSE col.column_name)

(***************************************************************************)
(* C29.  On any single node at most one of the six visitors changes the    *)
(* context, their trigger kinds being pairwise disjoint (cte; select_list; *)
(* select; join_condition, where_clause, group_by_clause, from_clause;     *)
(* qualify_clause; pivot_operator); hence running the six visitors on each *)
(* node in any other order than the fixed one gives the same used sets and *)
(* the same diagnostics.                                                   *)
(***************************************************************************)
\* visitor number k of check, in the order check calls them
VisitorAt(k, t, node, ctx) ==
    CASE k = 1 -> CteVisitor_visit(t, node, ctx)
      [] k = 2 -> SelectStarVisitor_visit(t, node, ctx)
      [] k = 3 -> SelectVisitor_visit(t, node, ctx)
      [] k = 4 -> WhereVisitor_visit(t, node, ctx)
      [] k = 5 -> QualifyVisitor_visit(t, node, ctx)
      [] k = 6 -> PivotVisitor_visit(t, node, ctx)

\* the kinds of node visitor number k acts on
TriggerKinds(k) ==
    CASE k = 1 -> {"cte"}
      [] k = 2 -> {"select_list"}
      [] k = 3 -> {"select"}
      [] k = 4 -> {"join_condition", "where_clause", "group_by_clause", "from_clause"}
      [] k = 5 -> {"qualify_clause"}
      [] k = 6 -> {"pivot_operator"}

\* the visitors run on a node in the order given, from position i on
RECURSIVE VisitInOrder(_, _, _, _, _)
VisitInOrder(order, i, t, node, ctx) ==
    IF i > Len(order) THEN ctx
    ELSE With(VisitorAt(order[i], t, node, ctx),
              LAMBDA visited : VisitInOrder(order, i + 1, t, node, visited))

\* orders other than the fixed one: its reverse, in which every two visitors
\* change places, and two of its rotations; on a node of no trigger kind
\* every visitor is held to return the context it is given, and on every
\* node every visitor that is not triggered is held to return, as it is, the
\* context before and the context after the visit
OtherOrders == {<<6, 5, 4, 3, 2, 1>>, <<3, 4, 5, 6, 1, 2>>, <<5, 6, 1, 2, 3, 4>>}

VisitorsCommute ==
    (phase = "visit" /\ pc <= Len(tree) /\ ~CteVisitor_panics(tree, pc))
       => With(visit_node(tree, pc, context), LAMBDA visited :
             /\ \A j, k \in 1..6 : j # k => TriggerKinds(j) \cap TriggerKinds(k) = {}
             /\ \A k \in 1..6 :
                   tree[pc].kind \notin TriggerKinds(k)
                      => /\ VisitorAt(k, tree, pc, context) = context
                         /\ VisitorAt(k, tree, pc, visited) = visited
             /\ tree[pc].kind \in UNION {TriggerKinds(k) : k \in 1..6}
                   => \A order \in OtherOrders :
                         VisitInOrder(order, 1, tree, pc, context) = visited)

\* a node on which a visitor that is not the first acts, at its turn
VisitorsCommuteChecked ==
    /\ phase = "visit"
    /\ pc <= Len(tree)
    /\ tree[pc].kind = "where_clause"
    /\ WhereVisitor_visit(tree, pc, context) # context
    /\ VisitInOrder(<<6, 5, 4, 3, 2, 1>>, 1, tree, pc, context) = visit_node(tree, pc, context)

(***************************************************************************)
(* C30.  The marks made while a CTE body is visited are single-hop and     *)
(* unconditional: when the SELECT list, WHERE, JOIN condition or GROUP BY  *)
(* of a later CTE B references column c of CTE A, (A, c) is marked at that *)
(* visit, without any worklist and whether or not B is consumed, so A.c is *)
(* never reported unused, even when the final query uses no column of B.   *)
(***************************************************************************)
\* the nodes above node n
RECURSIVE AncestorsOf(_, _)
AncestorsOf(t, n) ==
    IF t[n].parent = 0 THEN {} ELSE {t[n].parent} \cup AncestorsOf(t, t[n].parent)

\* the node at whose visit reference r of a CTE body is read: the clause it
\* lies in, or the select whose list holds it; as a set
ReadAt(t, r) ==
    With(AncestorsOf(t, r) \cup {r}, LAMBDA above :
    With({s \in above : t[s].kind = "select"}, LAMBDA selects :
         {m \in above :
             /\ \A s \in selects : s <= m
             /\ \/ t[m].kind \in ConditionKinds
                \/ /\ t[m].kind = "select"
                   /\ \E e \in above :
                         /\ t[e].kind = "select_expression"
                         /\ t[e].parent # 0
                         /\ t[t[e].parent].kind = "select_list"
                         /\ t[t[e].parent].parent = m}))

\* the registered CTE, defined before cte node b, that reference r in the
\* body of b resolves to; as a set
ReadFrom(t, b, r) ==
    With(extract_tables_from_parent(t, r), LAMBDA ft :
    With(find_original_table(t[r].text, ft.tables, ft.alias_map, context.cte_columns),
         LAMBDA A :
            IF /\ A \in DOMAIN context.cte_columns
               /\ \E c \in Range(context.cte_columns[A]) :
                     extract_column_name(c.column_name) = extract_column_name(t[r].text)
               /\ \E k \in 1..(b - 1) : DefinedBefore(t, k, b) /\ get_cte_name(t, k) = Some(A)
            THEN {A} ELSE {}))

BodyMarksSingleHop ==
    /\ [](\A b \in 1..Len(tree) :
             (tree[b].kind = "cte" /\ b < pc)
                => \A r \in RefsUnder(tree, b) :
                      \A m \in ReadAt(tree, r) :
                         m < pc
                            => \A A \in ReadFrom(tree, b, r) :
                                  /\ extract_column_name(tree[r].text)
                                        \in context.graph[A].used_column_names
                                  /\ Done
                                        => \A c \in Range(unused) :
                                              ~(/\ c \in Range(context.graph[A].columns)
                                                /\ extract_column_name(c.column_name)
                                                      = extract_column_name(tree[r].text)))
    /\ [][(phase = "visit" /\ pc <= Len(tree) /\ UnderCte(tree, pc))
             => (phase' # "worklist" /\ queue' = queue)]_vars

\* check is over: CTE b read both columns of CTE a, the final query reads
\* neither of them, every column of b is reported and none of a
BodyMarksSingleHopChecked ==
    /\ Done
    /\ DOMAIN context.graph = {Str("a"), Str("b")}
    /\ context.graph[Str("b")].used_column_names = {}
    /\ Range(context.graph[Str("b")].columns) \subseteq Range(unused)
    /\ context.graph[Str("a")].used_column_names = {ColC1, ColC2}
    /\ \A c \in Range(unused) : c \notin Range(context.graph[Str("a")].columns)
    /\ \E b \in 1..Len(tree) :
          /\ tree[b].kind = "cte"
          /\ \E r \in RefsUnder(tree, b) : ReadFrom(tree, b, r) = {Str("a")}
====
